---- MODULE Spec2Model ----
(***************************************************************************)
(* Branching life-trajectory simulation (simulation.py, events.py,         *)
(* world_state.py, config_models.py).                                      *)
(*                                                                         *)
(* Encoding of the Python values:                                          *)
(*   - money (cash, loan, income, stock, prices) is an integer number of   *)
(*     currency units; a product with a decimal factor is computed on      *)
(*     integers and rounded down to the unit (x * 1.10 is (x*110) \div 100)*)
(*   - mortgage_rate is held in percent (0.04 is 4), risk_factor in tenths *)
(*     (0.3 is 3), an age in months, a probability in units of 1/100000    *)
(*     (1.0 is 100000), so that every comparison of the code is exact;     *)
(*   - an object is a record whose domain is the set of fields its class   *)
(*     declares; a dict is a function on the keys it holds; a list is a    *)
(*     sequence; Optional[int] is <<>> (None) or <<n>>;                    *)
(*   - a raised exception is the record [exception |-> <its class name>].  *)
(***************************************************************************)
EXTENDS Integers, Sequences, FiniteSets, TLC

VARIABLES
  pc,             \* position of the running call: idle, layer, toggle, sample, branch, call, ops, names, done, error
  raised,         \* class name of the exception that ended the call, "" when none
  args,           \* the arguments of the call (read-only after Init)
  global_cfg,     \* GlobalConfig in effect
  layer_idx,      \* loop variable of the layer loop (number of layers completed)
  active_worlds,  \* simulate_layers.active_worlds / run_scenario.current_worlds
  next_worlds,    \* next_worlds being built in the current layer
  widx,           \* number of entries of active_worlds already branched in this layer
  sampled_event,  \* name of the event sampled for this layer, "" before sampling
  selectable,     \* events + choices kept by _build_weighted
  weights,        \* their weights
  name_counter,   \* NameAllocator._counter
  id_counter,     \* IdAllocator._counter
  prev_worlds,    \* history: the worlds active when the current layer (or operation) began
  last,           \* history: the most recent operation, its input and its result
  returned,       \* history: the names next_name has returned, in order
  written,        \* the layer snapshots _write_layer_output has written, in order
  toggles,        \* history: the number of highlight flips made so far
  ids_seen        \* history: the ids carried by any world of the run so far

vars == <<pc, raised, args, global_cfg, layer_idx, active_worlds, next_worlds, widx,
          sampled_event, selectable, weights, name_counter, id_counter, prev_worlds,
          last, returned, written, toggles, ids_seen>>

-----------------------------------------------------------------------------
(* Generic Python helpers *)

None == <<>>
Some(x) == <<x>>
Max(a, b) == IF a >= b THEN a ELSE b
Min(a, b) == IF a <= b THEN a ELSE b

\* dict.get(key, default)
DictGet(d, k, default) == IF k \in DOMAIN d THEN d[k] ELSE default

\* {**d, k: v}
DictPut(d, k, v) == [y \in (DOMAIN d) \cup {k} |-> IF y = k THEN v ELSE d[y]]

Raise(cls) == [exception |-> cls]
IsError(x) == "exception" \in DOMAIN x

-----------------------------------------------------------------------------
(* world_state.py *)

\* The fields the WorldState dataclass declares.
WorldStateFields ==
  { "name", "current_income", "current_loan", "stock_value", "cash", "family_status",
    "children", "health_status", "career_length", "property_type", "property_rooms",
    "property_price", "bankrupt", "metadata", "trajectory_events" }

\* The fields with a default value: bankrupt, metadata, trajectory_events.
WorldStateDefaults == [bankrupt |-> FALSE, metadata |-> <<>>, trajectory_events |-> <<>>]

\* WorldState(**kwargs): the generated __init__ rejects a keyword that is not a
\* declared field, and a missing field that has no default.
WorldState(kwargs) ==
  IF /\ DOMAIN kwargs \subseteq WorldStateFields
     /\ WorldStateFields \ DOMAIN WorldStateDefaults \subseteq DOMAIN kwargs
  THEN kwargs @@ WorldStateDefaults
  ELSE Raise("TypeError")

\* WorldState.copy_with_updates: dataclasses.replace builds a new object of the
\* object's own class from its fields overridden by kwargs, so a keyword the class
\* does not declare is rejected by __init__.
copy_with_updates(world, kwargs) ==
  IF DOMAIN kwargs \subseteq DOMAIN world
  THEN [f \in DOMAIN world |-> IF f \in DOMAIN kwargs THEN kwargs[f] ELSE world[f]]
  ELSE Raise("TypeError")

\* getattr(world, attr) is defined only for an attribute the object carries.
HasAttr(world, attr) == attr \in DOMAIN world

-----------------------------------------------------------------------------
(* events.py: feasibility and probability helpers *)

\* The mutant of _clamp_probability: the value is returned as it is.
_clamp_probability_open(value) == value

\* _clamp_probability: max(0.0, min(1.0, value)), in units of 1/100000.
_clamp_probability(value) == Max(0, Min(100000, value))

\* _age_at_layer, in months: age * 12 + (layer_idx or 0).
_age_at_layer(user_cfg, layer) ==
  user_cfg.age * 12 + (IF layer # None THEN layer[1] ELSE 0)

\* _months_since: None without a layer index or without a recorded layer.
_months_since(world, event_name, layer) ==
  IF layer = None THEN None
  ELSE LET history == DictGet(world.metadata, "event_history", <<>>)
       IN IF event_name \in DOMAIN history
          THEN Some(layer[1] - history[event_name])
          ELSE None

child_events == <<"kid", "have_first_child", "have_second_child", "have_third_child">>

\* _latest_child_layer: the largest recorded layer of a child event, or None.
_latest_child_layer(world, layer) ==
  LET layers == { layer[1] - _months_since(world, child_events[i], layer)[1] :
                    i \in { j \in 1..Len(child_events) :
                              layer # None /\ _months_since(world, child_events[j], layer) # None } }
  IN IF layers = {} THEN None
     ELSE Some(CHOOSE m \in layers : \A n \in layers : n <= m)

\* The mutant of _is_event_feasible: every event is feasible in every world.
_is_event_feasible_always(event_name, world, layer) == TRUE

_is_event_feasible(event_name, world, layer) ==
  IF world.health_status = "deceased" \/ DictGet(world.metadata, "world_status", "") = "terminated"
  THEN FALSE
  ELSE CASE event_name = "death" -> world.health_status # "deceased"
         [] event_name = "marry" -> world.family_status # "married"
         [] event_name = "divorce" -> world.family_status = "married"
         [] event_name = "have_first_child" -> world.children = 0
         [] event_name = "have_second_child" -> world.children >= 1 /\ world.children < 2
         [] event_name = "have_third_child" -> world.children >= 2 /\ world.children < 3
         [] event_name = "kid" -> world.children < 4
         [] event_name \in {"stock_market_increase", "stock_market_crash"} -> world.stock_value > 0
         [] event_name \in {"make_extra_payment", "increase_payment_rate", "decrease_payment_rate"} ->
              world.current_loan > 0
         [] event_name = "get_loan" -> world.property_price <= 0
         [] event_name = "go_on_vacation" ->
              LET months_since_vacation == _months_since(world, "go_on_vacation", layer)
              IN months_since_vacation = None \/ months_since_vacation[1] >= 12
         [] event_name = "buy_disability_insurance" ->
              ~ DictGet(world.metadata, "has_disability_insurance", FALSE)
         [] event_name = "buy_insurance" -> ~ DictGet(world.metadata, "has_insurance", FALSE)
         [] event_name = "buy_second_car" -> ~ DictGet(world.metadata, "second_car", FALSE)
         [] event_name = "renovate_house" ->
              world.property_price > 0 /\ ~ DictGet(world.metadata, "renovated_house", FALSE)
         [] OTHER -> TRUE

\* BASE_EVENT_PROBABILITIES, in thousandths.
BASE_EVENT_PROBABILITIES ==
  [ marry |-> 120, divorce |-> 50, have_first_child |-> 120, have_second_child |-> 100,
    have_third_child |-> 60, kid |-> 80, go_on_vacation |-> 200, get_loan |-> 100,
    invest_in_stock |-> 180, make_extra_payment |-> 100, increase_payment_rate |-> 80,
    decrease_payment_rate |-> 50, buy_disability_insurance |-> 100, buy_insurance |-> 80,
    buy_second_car |-> 50, renovate_house |-> 50, sickness |-> 60, disability |-> 20,
    death |-> 5 ]

-----------------------------------------------------------------------------
(* events.py: handlers *)

\* The mutant of _with_history: the update is applied and no token is recorded.
_with_history_no_token(world, event_name, updates) ==
  copy_with_updates(world, updates)

\* The mutant of _with_history: the token replaces the history it should follow.
_with_history_rewrites(world, event_name, updates) ==
  copy_with_updates(world, [trajectory_events |-> <<event_name>>] @@ updates)

\* The mutant of _with_history: the result starts with a clean bankrupt flag.
_with_history_discharges(world, event_name, updates) ==
  copy_with_updates(world,
    [trajectory_events |-> Append(world.trajectory_events, event_name),
     bankrupt |-> FALSE] @@ updates)

\* _with_history: trajectory_events + [event_name], then the field updates.
_with_history(world, event_name, updates) ==
  copy_with_updates(world,
    [trajectory_events |-> Append(world.trajectory_events, event_name)] @@ updates)

_nothing(world, gcfg, ucfg) == _with_history(world, "nothing", <<>>)

\* The mutant of _marry: the transition is recorded whether or not it applies.
_marry_again(world, gcfg, ucfg) ==
  _with_history(world, "marry", [family_status |-> "married"])

_marry(world, gcfg, ucfg) ==
  IF world.family_status # "married"
  THEN _with_history(world, "marry", [family_status |-> "married"])
  ELSE _with_history(world, "marry_no_change", <<>>)

_divorce(world, gcfg, ucfg) ==
  IF world.family_status = "married"
  THEN _with_history(world, "divorce", [family_status |-> "divorced"])
  ELSE _with_history(world, "divorce_no_change", <<>>)

_income_increase(world, gcfg, ucfg) ==
  _with_history(world, "income_increase",
    [current_income |-> (world.current_income * 110) \div 100])

_income_decrease(world, gcfg, ucfg) ==
  _with_history(world, "income_decrease",
    [current_income |-> (world.current_income * 90) \div 100])

_kid(world, gcfg, ucfg) == _with_history(world, "kid", [children |-> world.children + 1])

_sickness(world, gcfg, ucfg) ==
  _with_history(world, "sickness",
    [health_status |-> "sick", current_income |-> (world.current_income * 85) \div 100])

_layoff(world, gcfg, ucfg) ==
  _with_history(world, "layoff",
    [current_income |-> (world.current_income * 50) \div 100,
     metadata |-> DictPut(world.metadata, "employment", "unemployed")])

_new_job(world, gcfg, ucfg) ==
  _with_history(world, "new_job",
    [current_income |-> (world.current_income * 120) \div 100,
     metadata |-> DictPut(world.metadata, "employment", "employed")])

\* The mutant of _go_on_vacation: the cost is subtracted without the clamp.
_go_on_vacation_unclamped(world, gcfg, ucfg) ==
  _with_history(world, "go_on_vacation",
    [current_income |-> (world.current_income * 95) \div 100,
     cash |-> world.cash - 2000,
     metadata |-> DictPut(world.metadata, "recent_vacation", TRUE)])

_go_on_vacation(world, gcfg, ucfg) ==
  _with_history(world, "go_on_vacation",
    [current_income |-> (world.current_income * 95) \div 100,
     cash |-> Max(0, world.cash - 2000),
     metadata |-> DictPut(world.metadata, "recent_vacation", TRUE)])

_buy_insurance(world, gcfg, ucfg) ==
  _with_history(world, "buy_insurance",
    [cash |-> Max(0, world.cash - 500),
     metadata |-> DictPut(world.metadata, "has_insurance", TRUE)])

_invest_in_stock(world, gcfg, ucfg) ==
  IF world.cash <= 0
  THEN _with_history(world, "invest_in_stock_no_cash", <<>>)
  ELSE LET investment == (world.cash * 2) \div 10
       IN _with_history(world, "invest_in_stock",
            [cash |-> world.cash - investment,
             stock_value |-> world.stock_value + investment,
             metadata |-> DictPut(world.metadata, "invested_in_stock", TRUE)])

_unexpected_expense(world, gcfg, ucfg) ==
  LET reduction == (world.cash * 2) \div 10
  IN _with_history(world, "unexpected_expense",
       [cash |-> Max(0, world.cash - reduction),
        metadata |-> DictPut(world.metadata, "unexpected_expense", reduction)])

_natural_disaster(world, gcfg, ucfg) ==
  _with_history(world, "natural_disaster",
    [cash |-> Max(0, (world.cash * 7) \div 10),
     current_income |-> (world.current_income * 9) \div 10,
     metadata |-> DictPut(world.metadata, "natural_disaster", TRUE)])

_death(world, gcfg, ucfg) ==
  _with_history(world, "death",
    [current_income |-> 0,
     health_status |-> "deceased",
     metadata |-> DictPut(world.metadata, "world_status", "terminated")])

_stock_market_increase(world, gcfg, ucfg) ==
  IF world.stock_value <= 0
  THEN _with_history(world, "stock_market_increase_no_position", <<>>)
  ELSE _with_history(world, "stock_market_increase",
         [stock_value |-> world.stock_value + (world.stock_value * 15) \div 100])

_stock_market_crash(world, gcfg, ucfg) ==
  IF world.stock_value <= 0
  THEN _with_history(world, "stock_market_crash_no_position", <<>>)
  ELSE _with_history(world, "stock_market_crash",
         [stock_value |-> Max(0, world.stock_value - (world.stock_value * 3) \div 10)])

\* The mutant of _get_loan: the loan is granted and no property is recorded.
_get_loan_unhoused(world, gcfg, ucfg) ==
  _with_history(world, "get_loan",
    [current_loan |-> world.current_loan + (400000 * (100 + gcfg.mortgage_rate)) \div 100,
     cash |-> world.cash + (400000 * (100 + gcfg.mortgage_rate)) \div 100])

\* One entry of metadata["loan_history"] is kept as its effective amount.
_get_loan(world, gcfg, ucfg) ==
  IF world.property_price > 0
  THEN _with_history(world, "get_loan_skipped_has_property", <<>>)
  ELSE LET placeholder_price == 400000
           effective_amount == (placeholder_price * (100 + gcfg.mortgage_rate)) \div 100
           monthly_payment == DictGet(gcfg.extras, "monthly_loan_payment", 0)
           with_override == DictPut(world.metadata, "monthly_payment_override", monthly_payment)
           loan_history == Append(DictGet(with_override, "loan_history", <<>>), effective_amount)
       IN _with_history(world, "get_loan",
            [current_loan |-> world.current_loan + effective_amount,
             cash |-> world.cash + effective_amount,
             metadata |-> DictPut(with_override, "loan_history", loan_history),
             property_type |-> "house",
             property_rooms |-> 3,
             property_price |-> placeholder_price])

\* _promotion: uniform is the value random.uniform(0.10, 0.20) returned, in percent.
_promotion(world, gcfg, ucfg, uniform) ==
  _with_history(world, "promotion",
    [current_income |-> world.current_income + (world.current_income * uniform) \div 100])

_bonus(world, gcfg, ucfg) ==
  _with_history(world, "bonus", [cash |-> world.cash + world.current_income])

_disability(world, gcfg, ucfg) ==
  _with_history(world, "disability",
    [health_status |-> "disabled", current_income |-> (world.current_income * 5) \div 10])

_inheritance(world, gcfg, ucfg) ==
  _with_history(world, "inheritance", [cash |-> world.cash + 100000])

_house_damage_minor(world, gcfg, ucfg) ==
  _with_history(world, "house_damage_minor",
    [cash |-> Max(0, world.cash - 10000),
     metadata |-> DictPut(world.metadata, "house_damage_minor", 10000)])

_house_damage_major(world, gcfg, ucfg) ==
  _with_history(world, "house_damage_major",
    [cash |-> Max(0, world.cash - 35000),
     metadata |-> DictPut(world.metadata, "house_damage_major", 35000)])

_car_breakdown(world, gcfg, ucfg) ==
  _with_history(world, "car_breakdown",
    [cash |-> Max(0, world.cash - 3000),
     metadata |-> DictPut(world.metadata, "car_breakdown", 3000)])

_have_first_child(world, gcfg, ucfg) ==
  IF world.children >= 1
  THEN _with_history(world, "have_first_child_skipped", <<>>)
  ELSE _with_history(world, "have_first_child", [children |-> world.children + 1])

_have_second_child(world, gcfg, ucfg) ==
  IF world.children >= 2
  THEN _with_history(world, "have_second_child_skipped", <<>>)
  ELSE _with_history(world, "have_second_child", [children |-> world.children + 1])

_have_third_child(world, gcfg, ucfg) ==
  IF world.children >= 3
  THEN _with_history(world, "have_third_child_skipped", <<>>)
  ELSE _with_history(world, "have_third_child", [children |-> world.children + 1])

_make_extra_payment(world, gcfg, ucfg) ==
  _with_history(world, "make_extra_payment",
    [cash |-> Max(0, world.cash - 5000),
     current_loan |-> Max(0, world.current_loan - 5000),
     metadata |-> DictPut(world.metadata, "extra_payment", 5000)])

_increase_payment_rate(world, gcfg, ucfg) ==
  LET base_payment == DictGet(gcfg.extras, "monthly_loan_payment", 0)
      current_override == DictGet(world.metadata, "monthly_payment_override", base_payment)
      new_override == IF current_override > 0
                      THEN Max(base_payment, (current_override * 5) \div 4)
                      ELSE (base_payment * 15) \div 10
  IN _with_history(world, "increase_payment_rate",
       [metadata |-> DictPut(world.metadata, "monthly_payment_override", new_override)])

_decrease_payment_rate(world, gcfg, ucfg) ==
  LET base_payment == DictGet(gcfg.extras, "monthly_loan_payment", 0)
      current_override == DictGet(world.metadata, "monthly_payment_override", base_payment)
      new_override == Max(0, (current_override * 5) \div 10)
  IN _with_history(world, "decrease_payment_rate",
       [metadata |-> DictPut(world.metadata, "monthly_payment_override", new_override)])

_buy_disability_insurance(world, gcfg, ucfg) ==
  _with_history(world, "buy_disability_insurance",
    [cash |-> Max(0, world.cash - 500),
     metadata |-> DictPut(world.metadata, "has_disability_insurance", TRUE)])

_buy_second_car(world, gcfg, ucfg) ==
  _with_history(world, "buy_second_car",
    [cash |-> Max(0, world.cash - 15000),
     metadata |-> DictPut(world.metadata, "second_car", TRUE)])

_renovate_house(world, gcfg, ucfg) ==
  _with_history(world, "renovate_house",
    [cash |-> Max(0, world.cash - 30000),
     metadata |-> DictPut(world.metadata, "renovated_house", TRUE)])

_change_career(world, gcfg, ucfg) ==
  _with_history(world, "change_career",
    [current_income |-> (world.current_income * 9) \div 10,
     metadata |-> DictPut(world.metadata, "career_change", TRUE)])

\* EVENT_REGISTRY: the names in insertion order, and is_choice of each.
EVENT_REGISTRY ==
  << "nothing", "marry", "divorce", "income_increase", "promotion", "bonus",
     "income_decrease", "kid", "have_first_child", "have_second_child",
     "have_third_child", "sickness", "disability", "layoff", "new_job",
     "go_on_vacation", "buy_insurance", "buy_disability_insurance", "invest_in_stock",
     "unexpected_expense", "natural_disaster", "death", "stock_market_increase",
     "stock_market_crash", "get_loan", "inheritance", "house_damage_minor",
     "house_damage_major", "car_breakdown", "make_extra_payment",
     "increase_payment_rate", "decrease_payment_rate", "buy_second_car",
     "renovate_house", "change_career" >>

RegistryNames == { EVENT_REGISTRY[i] : i \in 1..Len(EVENT_REGISTRY) }

\* Event.is_choice of the registry entry called name.
is_choice(name) ==
  name \in { "marry", "kid", "have_first_child", "have_second_child", "have_third_child",
             "go_on_vacation", "buy_insurance", "buy_disability_insurance",
             "invest_in_stock", "make_extra_payment", "increase_payment_rate",
             "decrease_payment_rate", "buy_second_car", "renovate_house", "change_career" }

\* DEFAULT_EVENT_NAMES / DEFAULT_CHOICE_NAMES: the registry split on is_choice.
DEFAULT_EVENT_NAMES == SelectSeq(EVENT_REGISTRY, LAMBDA n : ~ is_choice(n))
DEFAULT_CHOICE_NAMES == SelectSeq(EVENT_REGISTRY, LAMBDA n : is_choice(n))

\* The values random.uniform(0.10, 0.20) is drawn from, in percent.
UniformDraws == {10, 15, 20}

\* Event.apply: the handler registered under name.
apply(name, world, gcfg, ucfg, uniform) ==
  CASE name = "nothing" -> _nothing(world, gcfg, ucfg)
    [] name = "marry" -> _marry(world, gcfg, ucfg)
    [] name = "divorce" -> _divorce(world, gcfg, ucfg)
    [] name = "income_increase" -> _income_increase(world, gcfg, ucfg)
    [] name = "promotion" -> _promotion(world, gcfg, ucfg, uniform)
    [] name = "bonus" -> _bonus(world, gcfg, ucfg)
    [] name = "income_decrease" -> _income_decrease(world, gcfg, ucfg)
    [] name = "kid" -> _kid(world, gcfg, ucfg)
    [] name = "have_first_child" -> _have_first_child(world, gcfg, ucfg)
    [] name = "have_second_child" -> _have_second_child(world, gcfg, ucfg)
    [] name = "have_third_child" -> _have_third_child(world, gcfg, ucfg)
    [] name = "sickness" -> _sickness(world, gcfg, ucfg)
    [] name = "disability" -> _disability(world, gcfg, ucfg)
    [] name = "layoff" -> _layoff(world, gcfg, ucfg)
    [] name = "new_job" -> _new_job(world, gcfg, ucfg)
    [] name = "go_on_vacation" -> _go_on_vacation(world, gcfg, ucfg)
    [] name = "buy_insurance" -> _buy_insurance(world, gcfg, ucfg)
    [] name = "buy_disability_insurance" -> _buy_disability_insurance(world, gcfg, ucfg)
    [] name = "invest_in_stock" -> _invest_in_stock(world, gcfg, ucfg)
    [] name = "unexpected_expense" -> _unexpected_expense(world, gcfg, ucfg)
    [] name = "natural_disaster" -> _natural_disaster(world, gcfg, ucfg)
    [] name = "death" -> _death(world, gcfg, ucfg)
    [] name = "stock_market_increase" -> _stock_market_increase(world, gcfg, ucfg)
    [] name = "stock_market_crash" -> _stock_market_crash(world, gcfg, ucfg)
    [] name = "get_loan" -> _get_loan(world, gcfg, ucfg)
    [] name = "inheritance" -> _inheritance(world, gcfg, ucfg)
    [] name = "house_damage_minor" -> _house_damage_minor(world, gcfg, ucfg)
    [] name = "house_damage_major" -> _house_damage_major(world, gcfg, ucfg)
    [] name = "car_breakdown" -> _car_breakdown(world, gcfg, ucfg)
    [] name = "make_extra_payment" -> _make_extra_payment(world, gcfg, ucfg)
    [] name = "increase_payment_rate" -> _increase_payment_rate(world, gcfg, ucfg)
    [] name = "decrease_payment_rate" -> _decrease_payment_rate(world, gcfg, ucfg)
    [] name = "buy_second_car" -> _buy_second_car(world, gcfg, ucfg)
    [] name = "renovate_house" -> _renovate_house(world, gcfg, ucfg)
    [] name = "change_career" -> _change_career(world, gcfg, ucfg)

-----------------------------------------------------------------------------
(* events.py: event_probability *)

\* The life-stage adjustment of the base rate, in thousandths; age in months.
LifeStageBase(name, world, age) ==
  LET base == DictGet(BASE_EVENT_PROBABILITIES, name, 300)
  IN CASE name = "marry" ->
            IF world.family_status = "single"
            THEN (IF 24 * 12 <= age /\ age <= 38 * 12 THEN 250 ELSE 80)
            ELSE IF world.family_status = "divorced"
            THEN (IF age < 55 * 12 THEN 120 ELSE 30)
            ELSE base
       [] name = "divorce" -> IF world.family_status = "married" THEN 80 ELSE 0
       [] name = "have_first_child" -> IF 24 * 12 <= age /\ age <= 38 * 12 THEN 200 ELSE 50
       [] name = "have_second_child" -> IF 26 * 12 <= age /\ age <= 40 * 12 THEN 180 ELSE 40
       [] name = "have_third_child" -> IF 28 * 12 <= age /\ age <= 42 * 12 THEN 100 ELSE 20
       [] name = "kid" -> IF world.children < 3 THEN 100 ELSE 30
       [] name = "go_on_vacation" ->
            IF world.cash > 3000 THEN 250 ELSE IF world.cash > 1000 THEN 120 ELSE 20
       [] name = "get_loan" -> IF world.current_income > 3000 THEN 100 ELSE 60
       [] name \in {"make_extra_payment", "increase_payment_rate"} ->
            IF world.cash > 8000 THEN 150 ELSE 80
       [] name = "decrease_payment_rate" -> IF world.cash < 1000 THEN 100 ELSE 40
       [] name = "invest_in_stock" -> IF world.cash > 2000 THEN 200 ELSE 50
       [] name = "buy_disability_insurance" ->
            IF ~ DictGet(world.metadata, "has_disability_insurance", FALSE) THEN 150 ELSE 0
       [] name = "buy_insurance" ->
            IF ~ DictGet(world.metadata, "has_insurance", FALSE) THEN 120 ELSE 0
       [] name = "buy_second_car" -> IF world.cash > 10000 THEN 60 ELSE 20
       [] name = "renovate_house" -> IF world.cash > 20000 THEN 80 ELSE 20
       [] name = "sickness" -> IF world.health_status = "healthy" THEN 60 ELSE 20
       [] name = "disability" -> IF world.health_status # "disabled" THEN 30 ELSE 0
       [] name = "death" ->
            IF age > 70 * 12 THEN 10 ELSE IF age > 50 * 12 THEN 2 ELSE base
       [] OTHER -> base

\* The early "return 0.0" of the child and vacation branches: the minimum spacing
\* since the last recorded occurrence has not elapsed.
SpacingNotElapsed(name, world, layer) ==
  CASE name \in {"have_first_child", "have_second_child"} ->
         LET last_child == _latest_child_layer(world, layer)
         IN last_child # None /\ layer # None /\ layer[1] - last_child[1] < 10
    [] name = "have_third_child" ->
         LET last_child == _latest_child_layer(world, layer)
         IN last_child # None /\ layer # None /\ layer[1] - last_child[1] < 12
    [] name = "go_on_vacation" ->
         LET months_since_vacation == _months_since(world, "go_on_vacation", layer)
         IN months_since_vacation # None /\ months_since_vacation[1] < 12
    [] OTHER -> FALSE

\* event_probability, in units of 1/100000: base (thousandths) times the risk
\* modifier 1 + risk_factor * 0.1 (hundredths), clamped to [0, 1].
event_probability(name, world, gcfg, ucfg, layer) ==
  IF ~ _is_event_feasible(name, world, layer) THEN 0
  ELSE IF SpacingNotElapsed(name, world, layer) THEN 0
  ELSE _clamp_probability(
         LifeStageBase(name, world, _age_at_layer(ucfg, layer)) * (100 + gcfg.risk_factor))

-----------------------------------------------------------------------------
(* simulation.py: allocators *)

DEFAULT_WORLD_NAMES ==
  <<
    "Alice", "Bob", "Charlie", "Diana", "Ethan", "Fiona", "George", "Hannah",
    "Ian", "Julia", "Kevin", "Laura", "Michael", "Nina", "Oscar", "Paula",
    "Quentin", "Rachel", "Sam", "Tina", "Umar", "Vera", "Walter", "Xenia",
    "Yannis", "Zara", "Aaron", "Beatrice", "Caleb", "Delia", "Eli", "Freya",
    "Gavin", "Helena", "Iris", "Jonas", "Kara", "Liam", "Mira", "Noah",
    "Olivia", "Peter", "Rita", "Simon", "Tara", "Ulysses", "Valerie", "Wesley",
    "Xander", "Yara", "Zane", "Adele", "Boris", "Celine", "Derek", "Elaine",
    "Felix", "Greta", "Harvey", "Isabel", "Jasper", "Kelsey", "Leon", "Marina",
    "Nikolai", "Ophelia", "Paolo", "Queenie", "Rafael", "Sienna", "Theo", "Uma",
    "Viktor", "Wendy", "Ximena", "Yuri", "Zoey", "Alfred", "Bella", "Cedric",
    "Daisy", "Edgar", "Flora", "Gordon", "Hazel", "Ismael", "Joy", "Kai",
    "Lara", "Marcus", "Noelle", "Orion", "Penelope", "Quincy", "Roxanne", "Sebastian",
    "Thalia", "Ulrich", "Violet", "Wyatt", "Xavier", "Yasmine", "Zoltan", "Abigail",
    "Bruno", "Clara", "Damian", "Evelyn", "Frederick", "Georgia", "Hector", "Ingrid",
    "Jade", "Kurt", "Leona", "Mason", "Nadia", "Owen", "Phoebe", "Quinn",
    "Rosalind", "Stefan", "Tobias", "Ursula", "Vance", "Whitney", "Xyla", "Yakov",
    "Ziva", "Aiden", "Bianca", "Carter", "Dahlia", "Emil", "Farah", "Gideon",
    "Holly", "Irene", "Julius", "Keira", "Lorenzo", "Maddie", "Nolan", "Oriana",
    "Pierce", "Renee", "Silas", "Tessa", "Uliana", "Vera", "Warren", "Xoel",
    "Yvette", "Zarek", "Adrian", "Brielle", "Cyrus", "Daria", "Eamon", "Felicity",
    "Graham", "Helga", "Isaias", "Janelle", "Kian", "Lydia", "Malcolm", "Nora",
    "Otto", "Priscilla", "Ronan", "Sabrina", "Terrence", "Usha", "Vladimir", "Willa",
    "Xandra", "Yosef", "Zelda", "Ari", "Bridget", "Caden", "Delilah", "Emilia",
    "Floyd", "Gemma", "Huxley", "Imogen", "Jace", "Kira", "Lucian", "Maeve",
    "Nelson", "Orla", "Paxton", "Rhea", "Shawn", "Talia", "Umarion", "Vesper"
  >>

\* NameAllocator.next_name, on a counter value: the name returned. The counter
\* moves to counter + 1.
next_name(names, counter) ==
  IF counter < Len(names) THEN names[counter + 1]
  ELSE "World_" \o ToString(counter + 1)

\* The mutant of next_id: the counter is returned and left where it was.
next_id_stuck(counter) == [value |-> counter, counter |-> counter]

\* IdAllocator.next_id, on a counter value: the id returned and the new counter.
next_id(counter) == [value |-> counter, counter |-> counter + 1]

\* The mutant of ensure_at_least: the counter is never bumped.
ensure_at_least_noop(counter, start) == counter

\* IdAllocator.ensure_at_least
ensure_at_least(counter, start) == IF start > counter THEN start ELSE counter

-----------------------------------------------------------------------------
(* simulation.py: world creation and the economic step *)

\* create_initial_world; highlight is None or <<flag>>, rand_lt_02 is the outcome
\* of "rand < 0.2" should the flag have to be drawn.
create_initial_world(gcfg, ucfg, name, world_id, highlight, rand_lt_02) ==
  LET property_data == DictGet(ucfg.extras, "property", <<>>)
  IN WorldState(
       [ id |-> world_id,
         name |-> name,
         current_income |-> ucfg.income,
         current_loan |-> 0,
         stock_value |-> DictGet(ucfg.extras, "starting_stock", 0),
         cash |-> DictGet(ucfg.extras, "starting_cash", 0),
         family_status |-> DictGet(ucfg.extras, "family_status", "single"),
         children |-> DictGet(ucfg.extras, "children", 0),
         health_status |-> DictGet(ucfg.extras, "health_status", "healthy"),
         career_length |-> DictGet(ucfg.extras, "career_length", Max(0, ucfg.age - 18)),
         property_type |-> DictGet(property_data, "type", "apartment"),
         property_rooms |-> DictGet(property_data, "rooms", 0),
         property_price |-> DictGet(property_data, "price", 0),
         highlight |-> IF highlight = None THEN rand_lt_02 ELSE highlight[1],
         metadata |-> [global_extras |-> gcfg.extras, user_extras |-> ucfg.extras],
         trajectory_events |-> <<>> ])

\* adjust_global_parameters: a pass-through.
adjust_global_parameters(gcfg, layer) == gcfg

\* The mutant of apply_loan_repayment: only what goes to the loan leaves the cash.
apply_loan_repayment_loan_only(world, gcfg) ==
  LET cash_after_income == world.cash + world.current_income
      monthly_payment == DictGet(world.metadata, "monthly_payment_override",
                                 DictGet(gcfg.extras, "monthly_loan_payment", 0))
      actual_payment == Min(Max(monthly_payment, cash_after_income \div 10), cash_after_income)
      loan_payment == Min(actual_payment, Max(0, world.current_loan))
  IN copy_with_updates(world,
       [ current_loan |-> world.current_loan - loan_payment,
         cash |-> cash_after_income - loan_payment ])

\* The largest whole amount c for which the double c - 1e-9 is below c: above
\* 2^24 the spacing of doubles exceeds 2e-9 and the subtraction returns c itself.
ToleranceLimit == 16777216

\* "x > c - 1e-9" of line 344 for whole amounts x and c, as doubles compute it.
AboveLessTolerance(x, c) == x > c \/ (x = c /\ c <= ToleranceLimit)

\* apply_loan_repayment
apply_loan_repayment(world, gcfg) ==
  LET monthly_income == world.current_income
      cash_after_income == world.cash + monthly_income
      monthly_payment == DictGet(world.metadata, "monthly_payment_override",
                                 DictGet(gcfg.extras, "monthly_loan_payment", 0))
      ten_percent_cash == cash_after_income \div 10
      target_payment == Max(monthly_payment, ten_percent_cash)
      actual_payment == Min(target_payment, cash_after_income)
      new_loan == IF world.current_loan > 0
                  THEN world.current_loan - Min(actual_payment, world.current_loan)
                  ELSE world.current_loan
      new_cash == cash_after_income - actual_payment
      went_bankrupt == /\ AboveLessTolerance(actual_payment, cash_after_income)
                       /\ actual_payment < target_payment
                       /\ new_loan > 0
  IN copy_with_updates(world,
       [ current_loan |-> new_loan,
         cash |-> new_cash,
         bankrupt |-> (world.bankrupt \/ went_bankrupt) ])

\* apply_take_loan; layer, monthly_payment and tag are None or <<value>>.
apply_take_loan(world, layer, gcfg, amount, monthly_payment, tag) ==
  LET effective_amount == (amount * (100 + gcfg.mortgage_rate)) \div 100
      payment_override == IF monthly_payment = None
                          THEN DictGet(gcfg.extras, "monthly_loan_payment", 0)
                          ELSE monthly_payment[1]
      with_override == DictPut(world.metadata, "monthly_payment_override", payment_override)
      loan_history == Append(DictGet(with_override, "loan_history", <<>>),
                             [ layer |-> layer, base_amount |-> amount,
                               effective_amount |-> effective_amount, tag |-> tag ])
      tag_label == IF tag # None /\ tag[1] # "" THEN tag[1]
                   ELSE IF layer # None THEN "take_loan_layer_" \o ToString(layer[1])
                   ELSE "take_loan"
  IN copy_with_updates(world,
       [ current_loan |-> world.current_loan + effective_amount,
         cash |-> world.cash + effective_amount,
         metadata |-> DictPut(with_override, "loan_history", loan_history),
         trajectory_events |-> Append(world.trajectory_events, tag_label) ])

-----------------------------------------------------------------------------
(* simulation.py: _branch_worlds_on_event *)

\* The mutant of ChoiceResults: a choice forks whether or not the world is highlighted.
ChoiceResultsAlwaysFork(world, probability, flip, happens_world, not_happens_world) ==
  IF probability <= 0 THEN <<not_happens_world>>
  ELSE IF probability >= 100000 THEN <<happens_world>>
  ELSE <<happens_world, not_happens_world>>

\* The results of a choice: one coin flip for a world that is not highlighted,
\* both outcomes for a highlighted one. flip is the outcome of
\* "rand_fn() < probability" should it be evaluated.
ChoiceResults(world, probability, flip, happens_world, not_happens_world) ==
  IF ~ world.highlight
  THEN LET take_choice == probability >= 100000 \/ (probability > 0 /\ flip)
       IN <<IF take_choice THEN happens_world ELSE not_happens_world>>
  ELSE IF probability <= 0 THEN <<not_happens_world>>
  ELSE IF probability >= 100000 THEN <<happens_world>>
  ELSE <<happens_world, not_happens_world>>

\* The mutant of EventResults: the coin is flipped whatever the probability.
EventResultsFlip(probability, flip, applied_world, skipped_world) ==
  IF probability >= 100000 \/ flip THEN <<applied_world>> ELSE <<skipped_world>>

\* The mutant of EventResults: an event with 0 < p < 1 yields both outcomes.
EventResultsForks(probability, flip, applied_world, skipped_world) ==
  IF probability <= 0 THEN <<skipped_world>>
  ELSE IF probability >= 100000 THEN <<applied_world>>
  ELSE <<applied_world, skipped_world>>

\* The results of a non-choice event: skipped, or applied on one coin flip.
EventResults(probability, flip, applied_world, skipped_world) ==
  IF probability <= 0 THEN <<skipped_world>>
  ELSE IF probability >= 100000 \/ flip THEN <<applied_world>>
  ELSE <<skipped_world>>

\* The number of rand_fn() calls the step makes (the "or"/"and" short-circuit).
RandCalls(name, world, probability) ==
  IF 0 < probability /\ probability < 100000 /\ (is_choice(name) => ~ world.highlight)
  THEN 1 ELSE 0

\* The mutant of RenameRest: every additional branch keeps the name and id it has.
RenameRestKeeps(rest, names_at, ids_at) ==
  [worlds |-> rest, name_counter |-> names_at, id_counter |-> ids_at]

\* The loop over results[1:]: a fresh name and a fresh id for each additional branch.
RECURSIVE RenameRest(_, _, _)
RenameRest(rest, names_at, ids_at) ==
  IF rest = <<>>
  THEN [worlds |-> <<>>, name_counter |-> names_at, id_counter |-> ids_at]
  ELSE LET issued == next_id(ids_at)
           branch == copy_with_updates(Head(rest),
                       [name |-> next_name(DEFAULT_WORLD_NAMES, names_at), id |-> issued.value])
           more == RenameRest(Tail(rest), names_at + 1, issued.counter)
       IN [worlds |-> <<branch>> \o more.worlds,
           name_counter |-> more.name_counter,
           id_counter |-> more.id_counter]

\* The first branch keeps the input world's identity.
PrimaryBranch(world, first) ==
  copy_with_updates(first, [name |-> first.name, id |-> world.id])

\* The outcome of a call: the exception raised ("" when none), the list returned,
\* the number of random draws made and the allocators' counters afterwards.
Outcome(exc, results, draws, name_alloc, id_alloc) ==
  [raised |-> exc, results |-> results, draws |-> draws,
   name_allocator |-> name_alloc, id_allocator |-> id_alloc]

\* The mutant of MissingAllocator: the branches are returned as they are.
MissingAllocatorIgnored(results, draws, name_alloc, id_alloc) ==
  Outcome("", results, draws, name_alloc, id_alloc)

\* Lines 424-425: more than one result and an allocator is None.
MissingAllocator(results, draws, name_alloc, id_alloc) ==
  Outcome("ValueError", <<>>, draws, name_alloc, id_alloc)

\* _branch_worlds_on_event; name_alloc and id_alloc are None or <<counter>>.
\* event_probability is called without a layer index.
_branch_worlds_on_event(world, name, gcfg, ucfg, flip, uniform, name_alloc, id_alloc) ==
  LET probability == _clamp_probability(event_probability(name, world, gcfg, ucfg, None))
      draws == RandCalls(name, world, probability)
      skipped_world == copy_with_updates(world,
                         [trajectory_events |-> Append(world.trajectory_events, name \o "_skipped")])
      not_happens_world == copy_with_updates(world,
                         [trajectory_events |-> Append(world.trajectory_events, name \o "_not_chosen")])
      applied_world == apply(name, world, gcfg, ucfg, uniform)
      results == IF is_choice(name)
                 THEN ChoiceResults(world, probability, flip, applied_world, not_happens_world)
                 ELSE EventResults(probability, flip, applied_world, skipped_world)
  IN IF is_choice(name) /\ ~ HasAttr(world, "highlight")
     THEN Outcome("AttributeError", <<>>, 0, name_alloc, id_alloc)
     ELSE IF Len(results) <= 1
     THEN Outcome("", results, draws, name_alloc, id_alloc)
     ELSE IF name_alloc = None \/ id_alloc = None
     THEN MissingAllocator(results, draws, name_alloc, id_alloc)
     ELSE IF ~ HasAttr(world, "id")
     THEN Outcome("AttributeError", <<>>, draws, name_alloc, id_alloc)
     ELSE LET rest == RenameRest(Tail(results), name_alloc[1], id_alloc[1])
          IN Outcome("", <<PrimaryBranch(world, Head(results))>> \o rest.worlds,
                     draws, Some(rest.name_counter), Some(rest.id_counter))

\* The mutant of _build_weighted: no name is skipped.
_build_weighted_unfiltered(names, probabilities) ==
  [items |-> names,
   weights |-> [i \in 1..Len(names) |-> DictGet(probabilities, names[i], 50)]]

\* _build_weighted: the names found in the registry, and their weights in
\* hundredths (0.5 when the mapping has none).
_build_weighted(names, probabilities) ==
  LET items == SelectSeq(names, LAMBDA n : n \in RegistryNames)
  IN [items |-> items,
      weights |-> [i \in 1..Len(items) |-> DictGet(probabilities, items[i], 50)]]

-----------------------------------------------------------------------------
(* Inputs *)

MaxLayers == 2      \* the largest num_layers a call is given
MaxOps == 2         \* the longest sequence of operations applied to one world
MaxToggles == 1     \* the number of highlight flips followed in one run
MaxNameCalls == 204 \* the number of next_name calls followed
MaxDefaultLayers == 1 \* the largest num_layers of a call with the default catalog

\* A world as WorldState(...) builds it: the declared fields only.
Person ==
  WorldState(
    [ name |-> "Alice", current_income |-> 5000, current_loan |-> 0, stock_value |-> 0,
      cash |-> 0, family_status |-> "single", children |-> 0, health_status |-> "healthy",
      career_length |-> 12, property_type |-> "apartment", property_rooms |-> 0,
      property_price |-> 0 ])

\* A world object of a class that declares id and highlight besides the fields of
\* WorldState (a dataclass derived from it): the attributes simulate_layers and
\* _branch_worlds_on_event read from, and write to, the worlds they are given.
Identified(world, world_id, highlight) ==
  world @@ [id |-> world_id, highlight |-> highlight]

Saver == copy_with_updates(Person, [cash |-> 12000, stock_value |-> 4000])
Spouse ==
  copy_with_updates(Person,
    [ name |-> "Bob", family_status |-> "married", children |-> 1, cash |-> 2500,
      current_income |-> 3000 ])
Owner ==
  copy_with_updates(Person,
    [ name |-> "Charlie", current_loan |-> 60000, cash |-> 1000, current_income |-> 2000,
      property_type |-> "house", property_rooms |-> 3, property_price |-> 400000,
      metadata |-> [monthly_payment_override |-> 4000] ])

\* A divorced world whose loan is smaller than one payment, and a world whose
\* amounts are in the tens of millions.
Debtor ==
  copy_with_updates(Person,
    [ name |-> "Diana", family_status |-> "divorced", current_loan |-> 500, cash |-> 200,
      current_income |-> 800, metadata |-> [monthly_payment_override |-> 4000] ])
Tycoon ==
  copy_with_updates(Person,
    [ name |-> "Eve", current_loan |-> 50000000, cash |-> 16000000,
      current_income |-> 900000, metadata |-> [monthly_payment_override |-> 17000000] ])

\* A world after its death: deceased, no income, terminated.
Departed == _death(Spouse, <<>>, <<>>)

\* GlobalConfig with the given risk_factor (in tenths): 0.3, and two values that
\* drive every feasible probability to 1 or to 0.
GlobalConfigOf(risk) ==
  [ mortgage_rate |-> 4, interest_rate |-> 2, risk_factor |-> risk,
    extras |-> [monthly_loan_payment |-> 1500] ]

RiskFactors == {3, 1000, -200}

UserConfigs == { [income |-> 75000, age |-> 30, education |-> "msc", extras |-> <<>>] }

\* A user at the upper edge of the 24-38 band of marry.
BandEdgeUser == [income |-> 75000, age |-> 38, education |-> "msc", extras |-> <<>>]

\* The first world of a run for a single user with income 75000, as a caller
\* builds it in a class that carries id and highlight: the field values
\* create_initial_world computes, id 0, highlighted.
Newcomer == Identified(copy_with_updates(Person, [current_income |-> 75000]), 0, TRUE)

\* Two seed worlds as main() sets them up, one with the initial loan and one
\* without, of a class that carries id and highlight.
LoanNowWorld(gcfg) ==
  apply_take_loan(Identified(Person, 0, FALSE), Some(0), gcfg, 200000,
                  Some(DictGet(gcfg.extras, "monthly_loan_payment", 0)), Some("initial_loan"))
NoLoanWorld ==
  copy_with_updates(Identified(Person, 0, FALSE),
    [ id |-> 1, name |-> "Bob", metadata |-> [monthly_payment_override |-> 0],
      trajectory_events |-> <<"no_initial_loan">>, property_type |-> "none",
      property_rooms |-> 0, property_price |-> 0 ])

\* initial_worlds of a call, by the name of the seed: None (the callee creates the
\* first world), an empty list, a world of class WorldState, and worlds that carry
\* id and highlight.
InitialWorlds(seed, gcfg) ==
  CASE seed = "none" -> None
    [] seed = "empty" -> Some(<<>>)
    [] seed = "plain" -> Some(<<Person>>)
    [] seed = "saver" -> Some(<<Identified(Saver, 0, TRUE)>>)
    [] seed = "couple" -> Some(<<Identified(Spouse, 7, FALSE), Identified(Owner, 3, TRUE)>>)
    [] seed = "main" -> Some(<<LoanNowWorld(gcfg), NoLoanWorld>>)
    [] seed = "estate" -> Some(<<Identified(Owner, 3, TRUE), Identified(Departed, 4, TRUE)>>)
    [] seed = "newcomer" -> Some(<<Newcomer>>)

\* The allocators passed with a seed, as <<name_allocator, id_allocator>>: None (the
\* callee makes its own) or the counter of the caller's allocator.
Allocators(seed) ==
  CASE seed = "couple" -> <<None, Some(1)>>
    [] seed = "main" -> <<Some(2), Some(2)>>
    [] OTHER -> <<None, None>>

\* event_names, choice_names and the settings' probabilities for them, by name.
Catalog(catalog) ==
  CASE catalog = "life" ->
         [ event_names |-> <<"nothing", "get_loan", "death">>,
           choice_names |-> <<"marry", "make_extra_payment">>,
           event_probabilities |-> [nothing |-> 100],
           choice_probabilities |-> <<>> ]
    [] catalog = "default" ->
         [ event_names |-> DEFAULT_EVENT_NAMES,
           choice_names |-> DEFAULT_CHOICE_NAMES,
           event_probabilities |-> <<>>,
           choice_probabilities |-> <<>> ]
    [] catalog = "money" ->
         [ event_names |-> <<"divorce", "stock_market_crash", "no_such_event">>,
           choice_names |-> <<"invest_in_stock", "have_second_child">>,
           event_probabilities |-> <<>>,
           choice_probabilities |-> [invest_in_stock |-> 30] ]
    [] catalog = "idle" ->
         [ event_names |-> <<"nothing">>,
           choice_names |-> <<>>,
           event_probabilities |-> [nothing |-> 100],
           choice_probabilities |-> <<>> ]
    [] catalog = "leisure" ->
         [ event_names |-> <<>>,
           choice_names |-> <<"go_on_vacation">>,
           event_probabilities |-> <<>>,
           choice_probabilities |-> <<>> ]
    [] catalog = "void" ->
         [ event_names |-> <<"no_such_event">>,
           choice_names |-> <<"no_such_choice">>,
           event_probabilities |-> [no_such_event |-> 100],
           choice_probabilities |-> <<>> ]

\* The calls followed, as <<function, seed, catalog, risk_factor,
\* take_loan_at_layer, output_dir>>.
Setups ==
  { <<"simulate_layers", "saver", "life", 3, 0, None>>,
    <<"simulate_layers", "couple", "money", 3, 0, None>>,
    <<"simulate_layers", "main", "life", 1000, 0, Some("output")>>,
    <<"simulate_layers", "saver", "money", -200, 0, None>>,
    <<"simulate_layers", "estate", "default", 3, 0, None>>,
    <<"simulate_layers", "none", "life", 3, 0, None>>,
    <<"simulate_layers", "empty", "life", 3, 0, Some("output")>>,
    <<"simulate_layers", "plain", "money", 3, 0, None>>,
    <<"run_scenario", "none", "life", 3, 0, None>>,
    <<"run_scenario", "none", "money", 3, 1, Some("output")>>,
    <<"simulate_layers", "newcomer", "idle", 3, 0, None>>,
    <<"simulate_layers", "none", "idle", 3, 0, None>>,
    <<"simulate_layers", "saver", "leisure", 3, 0, None>>,
    <<"simulate_layers", "saver", "void", 3, 0, Some("output")>>,
    <<"run_scenario", "none", "void", 3, 0, None>> }

\* The calls followed for the user at the edge of the band of marry.
BandEdgeSetups == { <<"simulate_layers", "saver", "life", 3, 0, None>> }

Calls ==
  { [ fn |-> c[1][1], seed |-> c[1][2], catalog |-> c[1][3], risk_factor |-> c[1][4],
      take_loan_at_layer |-> c[1][5], output_dir |-> c[1][6], num_layers |-> c[2],
      user_cfg |-> c[3], loan_amount |-> 200000 ] :
      c \in { d \in Setups \X (0..MaxLayers) \X UserConfigs :
               d[1][3] = "default" => d[2] <= MaxDefaultLayers }
           \cup (BandEdgeSetups \X (0..MaxLayers) \X {BandEdgeUser}) }

-----------------------------------------------------------------------------
(* simulation.py: simulate_layers and run_scenario *)

NoOperation == [op |-> "none"]

InitRun ==
  /\ args \in Calls
  /\ global_cfg = GlobalConfigOf(args.risk_factor)
  /\ pc = "idle"
  /\ raised = ""
  /\ layer_idx = 0
  /\ active_worlds = <<>>
  /\ next_worlds = <<>>
  /\ widx = 0
  /\ sampled_event = ""
  /\ selectable = <<>>
  /\ weights = <<>>
  /\ name_counter = 0
  /\ id_counter = 0
  /\ prev_worlds = <<>>
  /\ last = NoOperation
  /\ returned = <<>>
  /\ written = <<>>
  /\ toggles = 0
  /\ ids_seen = {}

\* The largest w.id of a non-empty list of worlds.
MaxId(worlds) ==
  CHOOSE m \in { worlds[i].id : i \in 1..Len(worlds) } :
    \A i \in 1..Len(worlds) : worlds[i].id <= m

\* Lines 475-496 and 544-560: the allocators, the first population, the catalog.
\* A call that is given no worlds makes one with create_initial_world.
Start ==
  /\ pc = "idle"
  /\ LET initial_worlds == InitialWorlds(args.seed, global_cfg)
         name_allocator == Allocators(args.seed)[1]
         id_allocator == Allocators(args.seed)[2]
         name_start == IF name_allocator = None THEN 0 ELSE name_allocator[1]
         id_start == IF id_allocator = None THEN 0 ELSE id_allocator[1]
         catalog == Catalog(args.catalog)
         events == _build_weighted(catalog.event_names, catalog.event_probabilities)
         choices == _build_weighted(catalog.choice_names, catalog.choice_probabilities)
     IN IF args.fn = "simulate_layers" /\ initial_worlds # None
        THEN LET given == initial_worlds[1]
             IN IF \E i \in 1..Len(given) : ~ HasAttr(given[i], "id")
                THEN /\ pc' = "error"
                     /\ raised' = "AttributeError"
                     /\ active_worlds' = given
                     /\ UNCHANGED <<name_counter, id_counter, selectable, weights, prev_worlds>>
                ELSE /\ pc' = "layer"
                     /\ raised' = ""
                     /\ active_worlds' = given
                     /\ prev_worlds' = given
                     /\ name_counter' = name_start
                     /\ id_counter' = ensure_at_least(id_start,
                                        (IF given = <<>> THEN -1 ELSE MaxId(given)) + 1)
                     /\ selectable' = events.items \o choices.items
                     /\ weights' = events.weights \o choices.weights
        ELSE LET issued == next_id(id_start)
                 world == create_initial_world(global_cfg, args.user_cfg,
                            next_name(DEFAULT_WORLD_NAMES, name_start), issued.value,
                            Some(TRUE), FALSE)
             IN /\ name_counter' = name_start + 1
                /\ id_counter' = issued.counter
                /\ IF IsError(world)
                   THEN /\ pc' = "error"
                        /\ raised' = world.exception
                        /\ UNCHANGED <<active_worlds, selectable, weights, prev_worlds>>
                   ELSE /\ pc' = "layer"
                        /\ raised' = ""
                        /\ active_worlds' = <<world>>
                        /\ prev_worlds' = <<world>>
                        /\ selectable' = events.items \o choices.items
                        /\ weights' = events.weights \o choices.weights
  /\ ids_seen' = IF pc' = "layer"
                 THEN { active_worlds'[i].id : i \in 1..Len(active_worlds') }
                 ELSE ids_seen
  /\ UNCHANGED <<args, global_cfg, layer_idx, next_worlds, widx, sampled_event, last,
                 returned, written, toggles>>

\* Lines 501-502 and 564-567: the loan injection of run_scenario at its layer, then
\* apply_loan_repayment on every active world.
EconomicStep ==
  /\ pc = "layer"
  /\ layer_idx < args.num_layers
  /\ LET gcfg == adjust_global_parameters(global_cfg, layer_idx)
         injected == IF args.fn = "run_scenario" /\ layer_idx = args.take_loan_at_layer
                     THEN [i \in 1..Len(active_worlds) |->
                             apply_take_loan(active_worlds[i], Some(layer_idx), gcfg,
                                             args.loan_amount, None, None)]
                     ELSE active_worlds
     IN /\ global_cfg' = gcfg
        /\ active_worlds' = [i \in 1..Len(injected) |-> apply_loan_repayment(injected[i], gcfg)]
        /\ prev_worlds' = active_worlds
  /\ pc' = "toggle"
  /\ last' = [op |-> "economic", before |-> active_worlds]
  /\ UNCHANGED <<raised, args, layer_idx, next_worlds, widx, sampled_event, selectable,
                 weights, name_counter, id_counter, returned, written, toggles, ids_seen>>

\* Lines 504-506: each world's highlight is flipped when its draw is below 0.1;
\* toggled is the set of positions whose draw was.
ToggleHighlight ==
  /\ pc = "toggle"
  /\ \E toggled \in SUBSET (1..Len(active_worlds)) :
       /\ toggles + Cardinality(toggled) <= MaxToggles
       /\ toggles' = toggles + Cardinality(toggled)
       /\ IF \E i \in toggled : ~ HasAttr(active_worlds[i], "highlight")
          THEN /\ pc' = "error"
               /\ raised' = "AttributeError"
               /\ UNCHANGED active_worlds
          ELSE /\ pc' = "sample"
               /\ raised' = ""
               /\ active_worlds' =
                    [i \in 1..Len(active_worlds) |->
                       IF i \in toggled
                       THEN copy_with_updates(active_worlds[i],
                              [highlight |-> ~ active_worlds[i].highlight])
                       ELSE active_worlds[i]]
  /\ last' = [op |-> "toggle", before |-> active_worlds]
  /\ UNCHANGED <<args, global_cfg, layer_idx, next_worlds, widx, sampled_event, selectable,
                 weights, name_counter, id_counter, prev_worlds, returned, written, ids_seen>>

\* Line 507: random.choices(selectable, weights=weights, k=1)[0]. An empty
\* population raises IndexError, a total weight of zero ValueError; an entry of
\* weight zero is never drawn.
SampleEvent ==
  /\ pc = "sample"
  /\ IF selectable = <<>>
     THEN /\ pc' = "error"
          /\ raised' = "IndexError"
          /\ UNCHANGED sampled_event
     ELSE IF \A i \in 1..Len(selectable) : weights[i] <= 0
     THEN /\ pc' = "error"
          /\ raised' = "ValueError"
          /\ UNCHANGED sampled_event
     ELSE /\ \E i \in 1..Len(selectable) :
               /\ weights[i] > 0
               /\ sampled_event' = selectable[i]
          /\ pc' = "branch"
          /\ raised' = ""
  /\ next_worlds' = <<>>
  /\ widx' = 0
  /\ last' = [op |-> "sample"]
  /\ UNCHANGED <<args, global_cfg, layer_idx, active_worlds, selectable, weights,
                 name_counter, id_counter, prev_worlds, returned, written, toggles, ids_seen>>

\* The record of one _branch_worlds_on_event call.
BranchRecord(world, name, gcfg, ucfg, flip, name_alloc, id_alloc, out, seen) ==
  [ op |-> "branch", world |-> world, event |-> name, issued_before |-> seen,
    probability |-> _clamp_probability(event_probability(name, world, gcfg, ucfg, None)),
    flip |-> flip, name_before |-> name_alloc, id_before |-> id_alloc, out |-> out ]

\* The mutant of BranchWorld: an event is drawn from the catalog for each world.
BranchWorldResampled ==
  /\ pc = "branch"
  /\ widx < Len(active_worlds)
  /\ \E k \in 1..Len(selectable), flip \in BOOLEAN :
       LET world == active_worlds[widx + 1]
           out == _branch_worlds_on_event(world, selectable[k], global_cfg, args.user_cfg,
                                          flip, 10, Some(name_counter), Some(id_counter))
       IN /\ weights[k] > 0
          /\ last' = BranchRecord(world, selectable[k], global_cfg, args.user_cfg, flip,
                                  Some(name_counter), Some(id_counter), out, ids_seen)
          /\ ids_seen' = ids_seen \cup { out.results[i].id : i \in 1..Len(out.results) }
          /\ IF out.raised # ""
             THEN /\ pc' = "error"
                  /\ raised' = out.raised
                  /\ UNCHANGED <<next_worlds, widx, name_counter, id_counter>>
             ELSE /\ pc' = "branch"
                  /\ raised' = ""
                  /\ next_worlds' = next_worlds \o out.results
                  /\ widx' = widx + 1
                  /\ name_counter' = out.name_allocator[1]
                  /\ id_counter' = out.id_allocator[1]
  /\ UNCHANGED <<args, global_cfg, layer_idx, active_worlds, sampled_event, selectable,
                 weights, prev_worlds, returned, written, toggles>>

\* Lines 509-520: one iteration of the loop over the active worlds.
BranchWorld ==
  /\ pc = "branch"
  /\ widx < Len(active_worlds)
  /\ \E flip \in BOOLEAN,
        uniform \in (IF sampled_event = "promotion" THEN UniformDraws ELSE {10}) :
       LET world == active_worlds[widx + 1]
           out == _branch_worlds_on_event(world, sampled_event, global_cfg, args.user_cfg,
                                          flip, uniform, Some(name_counter), Some(id_counter))
       IN /\ last' = BranchRecord(world, sampled_event, global_cfg, args.user_cfg, flip,
                                  Some(name_counter), Some(id_counter), out, ids_seen)
          /\ ids_seen' = ids_seen \cup { out.results[i].id : i \in 1..Len(out.results) }
          /\ IF out.raised # ""
             THEN /\ pc' = "error"
                  /\ raised' = out.raised
                  /\ UNCHANGED <<next_worlds, widx, name_counter, id_counter>>
             ELSE /\ pc' = "branch"
                  /\ raised' = ""
                  /\ next_worlds' = next_worlds \o out.results
                  /\ widx' = widx + 1
                  /\ name_counter' = out.name_allocator[1]
                  /\ id_counter' = out.id_allocator[1]
  /\ UNCHANGED <<args, global_cfg, layer_idx, active_worlds, sampled_event, selectable,
                 weights, prev_worlds, returned, written, toggles>>

\* Lines 521-523: the new population replaces the old one and is written out.
EndLayer ==
  /\ pc = "branch"
  /\ widx = Len(active_worlds)
  /\ active_worlds' = next_worlds
  /\ written' = IF args.output_dir # None
                THEN Append(written, [timestamp |-> layer_idx, worlds |-> next_worlds])
                ELSE written
  /\ layer_idx' = layer_idx + 1
  /\ pc' = "layer"
  /\ last' = [op |-> "end_layer"]
  /\ UNCHANGED <<raised, args, global_cfg, next_worlds, widx, sampled_event, selectable,
                 weights, name_counter, id_counter, prev_worlds, returned, toggles, ids_seen>>

\* Line 524: the loop is over and the active worlds are returned.
Return ==
  /\ pc = "layer"
  /\ layer_idx >= args.num_layers
  /\ pc' = "done"
  /\ last' = [op |-> "return"]
  /\ UNCHANGED <<raised, args, global_cfg, layer_idx, active_worlds, next_worlds, widx,
                 sampled_event, selectable, weights, name_counter, id_counter, prev_worlds,
                 returned, written, toggles, ids_seen>>

Next == Start \/ EconomicStep \/ ToggleHighlight \/ SampleEvent \/ BranchWorld \/ EndLayer \/ Return

Spec == InitRun /\ [][Next]_vars


-----------------------------------------------------------------------------
(* One call of _branch_worlds_on_event on one world *)

\* The worlds a call is followed on: of class WorldState, and of a class that
\* carries id and highlight, with the flag set and clear.
BranchInputs ==
  { Person, Owner,
    Identified(Person, 0, TRUE), Identified(Person, 0, FALSE),
    Identified(Spouse, 7, TRUE), Identified(Spouse, 7, FALSE),
    Identified(Owner, 3, TRUE), Identified(Owner, 3, FALSE),
    Identified(Saver, 5, TRUE), Identified(Saver, 5, FALSE) }

\* The counters of the allocators passed, as <<NameAllocator._counter,
\* IdAllocator._counter>>: early in the curated list, and at its end.
AllocatorCounters == { <<1, 8>>, <<200, 12>> }

InitBranch ==
  /\ args \in { [ fn |-> "_branch_worlds_on_event", name_allocator |-> a, id_allocator |-> b,
                    user_cfg |-> u ] :
                  a \in BOOLEAN, b \in BOOLEAN, u \in UserConfigs }
  /\ global_cfg \in { GlobalConfigOf(r) : r \in RiskFactors }
  /\ active_worlds \in { <<w>> : w \in BranchInputs }
  /\ \E c \in AllocatorCounters : name_counter = c[1] /\ id_counter = c[2]
  /\ pc = "call"
  /\ raised = ""
  /\ layer_idx = 0
  /\ next_worlds = <<>>
  /\ widx = 0
  /\ sampled_event = ""
  /\ selectable = <<>>
  /\ weights = <<>>
  /\ prev_worlds = active_worlds
  /\ last = NoOperation
  /\ returned = <<>>
  /\ written = <<>>
  /\ toggles = 0
  /\ ids_seen = { active_worlds[1].id : i \in { j \in {1} : HasAttr(active_worlds[1], "id") } }

\* _branch_worlds_on_event(world, event, global_cfg, user_cfg, rng, name_allocator,
\* id_allocator) for any event of the registry.
CallBranch ==
  /\ pc = "call"
  /\ \E name \in RegistryNames, flip \in BOOLEAN :
     \E uniform \in (IF name = "promotion" THEN UniformDraws ELSE {10}) :
       LET world == active_worlds[1]
           name_alloc == IF args.name_allocator THEN Some(name_counter) ELSE None
           id_alloc == IF args.id_allocator THEN Some(id_counter) ELSE None
           out == _branch_worlds_on_event(world, name, global_cfg, args.user_cfg, flip,
                                          uniform, name_alloc, id_alloc)
       IN /\ last' = BranchRecord(world, name, global_cfg, args.user_cfg, flip,
                                  name_alloc, id_alloc, out, ids_seen)
          /\ sampled_event' = name
          /\ next_worlds' = out.results
          /\ raised' = out.raised
          /\ pc' = IF out.raised # "" THEN "error" ELSE "done"
          /\ name_counter' = IF out.name_allocator = None THEN name_counter
                             ELSE out.name_allocator[1]
          /\ id_counter' = IF out.id_allocator = None THEN id_counter
                           ELSE out.id_allocator[1]
  /\ widx' = 1
  /\ UNCHANGED <<args, global_cfg, layer_idx, active_worlds, selectable, weights,
                 prev_worlds, returned, written, toggles, ids_seen>>

NextBranch == CallBranch

SpecBranch == InitBranch /\ [][NextBranch]_vars

-----------------------------------------------------------------------------
(* Sequences of handlers, economic steps and loan injections on one world *)

\* The worlds the sequences start from: cash, loan, stock, property price and
\* income are all non-negative.
OpsInputs == { Person, Saver, Spouse, Owner, Debtor, Tycoon }

\* The configurations of the sequences: the configured monthly payment is 1500,
\* or absent (0.0), and the mortgage rate 4% or 0%.
OpsConfigs ==
  { GlobalConfigOf(3),
    [ mortgage_rate |-> 0, interest_rate |-> 2, risk_factor |-> 3, extras |-> <<>> ] }

\* The amounts a loan injection is given.
LoanAmounts == { 0, 200000 }

\* The remaining arguments of apply_take_loan, as <<layer_index, monthly_payment,
\* tag>>: run_scenario's call, main's call, and a call with neither layer nor tag.
LoanCalls(layer) ==
  { <<Some(layer), None, None>>, <<Some(0), Some(0), Some("initial_loan")>>,
    <<None, None, None>> }

InitOps ==
  /\ args = [fn |-> "operations", user_cfg |-> CHOOSE u \in UserConfigs : TRUE]
  /\ global_cfg \in OpsConfigs
  /\ active_worlds \in { <<w>> : w \in OpsInputs }
  /\ pc = "ops"
  /\ raised = ""
  /\ layer_idx = 0
  /\ next_worlds = <<>>
  /\ widx = 0
  /\ sampled_event = ""
  /\ selectable = <<>>
  /\ weights = <<>>
  /\ name_counter = 0
  /\ id_counter = 0
  /\ prev_worlds = active_worlds
  /\ last = NoOperation
  /\ returned = <<>>
  /\ written = <<>>
  /\ toggles = 0
  /\ ids_seen = {}

\* What every operation of a sequence does to the bookkeeping.
Applied(op, name, after) ==
  /\ last' = [op |-> op, event |-> name, before |-> active_worlds[1], after |-> after]
  /\ prev_worlds' = active_worlds
  /\ layer_idx' = layer_idx + 1
  /\ IF IsError(after)
     THEN /\ pc' = "error"
          /\ raised' = after.exception
          /\ UNCHANGED active_worlds
     ELSE /\ pc' = "ops"
          /\ raised' = ""
          /\ active_worlds' = <<after>>
  /\ UNCHANGED <<args, global_cfg, next_worlds, widx, selectable, weights, name_counter,
                 id_counter, returned, written, toggles, ids_seen>>

\* event.apply(world, global_cfg, user_cfg) for any event of the registry.
ApplyHandler ==
  /\ pc = "ops"
  /\ layer_idx < MaxOps
  /\ \E name \in RegistryNames :
     \E uniform \in (IF name = "promotion" THEN UniformDraws ELSE {10}) :
       /\ sampled_event' = name
       /\ Applied("handler", name, apply(name, active_worlds[1], global_cfg, args.user_cfg, uniform))

\* apply_loan_repayment(world, global_cfg): the economic step of a layer.
RepayLoan ==
  /\ pc = "ops"
  /\ layer_idx < MaxOps
  /\ UNCHANGED sampled_event
  /\ Applied("economic", "", apply_loan_repayment(active_worlds[1], global_cfg))

\* apply_take_loan(world, layer_index, global_cfg, amount, monthly_payment, tag).
TakeLoan ==
  /\ pc = "ops"
  /\ layer_idx < MaxOps
  /\ UNCHANGED sampled_event
  /\ \E amount \in LoanAmounts, call \in LoanCalls(layer_idx) :
       Applied("take_loan", "", apply_take_loan(active_worlds[1], call[1], global_cfg,
                                                amount, call[2], call[3]))

NextOps == ApplyHandler \/ RepayLoan \/ TakeLoan

SpecOps == InitOps /\ [][NextOps]_vars

-----------------------------------------------------------------------------
(* Repeated NameAllocator.next_name on a default allocator *)

InitNames ==
  /\ args = [fn |-> "next_name"]
  /\ global_cfg = GlobalConfigOf(3)
  /\ pc = "names"
  /\ raised = ""
  /\ layer_idx = 0
  /\ active_worlds = <<>>
  /\ next_worlds = <<>>
  /\ widx = 0
  /\ sampled_event = ""
  /\ selectable = <<>>
  /\ weights = <<>>
  /\ name_counter = 0
  /\ id_counter = 0
  /\ prev_worlds = <<>>
  /\ last = NoOperation
  /\ returned = <<>>
  /\ written = <<>>
  /\ toggles = 0
  /\ ids_seen = {}

\* NameAllocator().next_name(): the name at the counter, and the counter advanced.
NextName ==
  /\ pc = "names"
  /\ Len(returned) < MaxNameCalls
  /\ returned' = Append(returned, next_name(DEFAULT_WORLD_NAMES, name_counter))
  /\ name_counter' = name_counter + 1
  /\ last' = [op |-> "next_name"]
  /\ UNCHANGED <<pc, raised, args, global_cfg, layer_idx, active_worlds, next_worlds, widx,
                 sampled_event, selectable, weights, id_counter, prev_worlds, written,
                 toggles, ids_seen>>

NextNames == NextName

SpecNames == InitNames /\ [][NextNames]_vars

-----------------------------------------------------------------------------
(* Evaluations of event_probability *)

\* Worlds that are out of the simulation: deceased without the terminated tag,
\* and terminated without being deceased.
Lifeless == copy_with_updates(Person, [health_status |-> "deceased"])
Halted == copy_with_updates(Saver, [metadata |-> [world_status |-> "terminated"]])

\* A world with recorded layers of a child event and of a vacation.
Parent ==
  copy_with_updates(Spouse,
    [ metadata |-> [event_history |-> [have_first_child |-> 2, go_on_vacation |-> 1]] ])

ProbInputs == { Person, Saver, Spouse, Owner, Debtor, Departed, Lifeless, Halted, Parent }

\* The user's age in years: in, and past, the age bands of the model.
ProbAges == { 30, 52, 75 }

\* The layer indices passed: none (as the driver calls it), and layers before and
\* after the spacing of 10 and 12 months has elapsed.
ProbLayers == { None, Some(0), Some(5), Some(13), Some(600) }

InitProb ==
  /\ args \in { [fn |-> "event_probability",
                 user_cfg |-> [income |-> 75000, age |-> a, education |-> "msc", extras |-> <<>>]] :
                  a \in ProbAges }
  /\ global_cfg \in { GlobalConfigOf(r) : r \in RiskFactors }
  /\ active_worlds \in { <<w>> : w \in ProbInputs }
  /\ pc = "eval"
  /\ raised = ""
  /\ layer_idx = 0
  /\ next_worlds = <<>>
  /\ widx = 0
  /\ sampled_event = ""
  /\ selectable = <<>>
  /\ weights = <<>>
  /\ name_counter = 0
  /\ id_counter = 0
  /\ prev_worlds = active_worlds
  /\ last = NoOperation
  /\ returned = <<>>
  /\ written = <<>>
  /\ toggles = 0
  /\ ids_seen = {}

\* event_probability(event, world, global_cfg, user_cfg, layer_idx) for any event
\* of the registry.
Evaluate ==
  /\ pc = "eval"
  /\ \E name \in RegistryNames, layer \in ProbLayers :
       /\ sampled_event' = name
       /\ last' = [ op |-> "probability", event |-> name, world |-> active_worlds[1],
                    layer |-> layer,
                    value |-> event_probability(name, active_worlds[1], global_cfg,
                                                args.user_cfg, layer) ]
  /\ pc' = "done"
  /\ UNCHANGED <<raised, args, global_cfg, layer_idx, active_worlds, next_worlds, widx,
                 selectable, weights, name_counter, id_counter, prev_worlds, returned,
                 written, toggles, ids_seen>>

NextProb == Evaluate

SpecProb == InitProb /\ [][NextProb]_vars

-----------------------------------------------------------------------------
(* Two calls of _branch_worlds_on_event with equal arguments and random sources *)

\* The world and allocators of both calls. The two rng objects passed are seeded
\* alike, so both calls get the same draw from them; what a handler draws from
\* the random module itself is not theirs.
InitTwin ==
  /\ args = [fn |-> "twice", user_cfg |-> CHOOSE u \in UserConfigs : TRUE]
  /\ global_cfg \in { GlobalConfigOf(r) : r \in RiskFactors }
  /\ active_worlds \in { <<w>> : w \in { b \in BranchInputs : HasAttr(b, "id") } }
  /\ \E c \in AllocatorCounters : name_counter = c[1] /\ id_counter = c[2]
  /\ pc = "call"
  /\ raised = ""
  /\ layer_idx = 0
  /\ next_worlds = <<>>
  /\ widx = 0
  /\ sampled_event = ""
  /\ selectable = <<>>
  /\ weights = <<>>
  /\ prev_worlds = active_worlds
  /\ last = NoOperation
  /\ returned = <<>>
  /\ written = <<>>
  /\ toggles = 0
  /\ ids_seen = {}

\* One event is given to both calls; next_worlds is what the first returns and
\* returned what the second does. flip is the draw from the rng passed;
\* first_uniform and second_uniform are random.uniform(0.10, 0.20) of line 295 in
\* the one call and in the other.
CallTwice ==
  /\ pc = "call"
  /\ \E name \in RegistryNames, flip \in BOOLEAN :
     \E first_uniform, second_uniform \in (IF name = "promotion" THEN UniformDraws ELSE {10}) :
       LET world == active_worlds[1]
           first == _branch_worlds_on_event(world, name, global_cfg, args.user_cfg, flip,
                      first_uniform, Some(name_counter), Some(id_counter))
           second == _branch_worlds_on_event(world, name, global_cfg, args.user_cfg, flip,
                       second_uniform, Some(name_counter), Some(id_counter))
       IN /\ last' = [ op |-> "twice", event |-> name, world |-> world, flip |-> flip,
                       first |-> first, second |-> second ]
          /\ sampled_event' = name
          /\ next_worlds' = first.results
          /\ returned' = second.results
          /\ raised' = first.raised
  /\ pc' = "done"
  /\ UNCHANGED <<args, global_cfg, layer_idx, active_worlds, widx, selectable, weights,
                 name_counter, id_counter, prev_worlds, written, toggles, ids_seen>>

NextTwin == CallTwice

SpecTwin == InitTwin /\ [][NextTwin]_vars

-----------------------------------------------------------------------------
(* Worlds as objects: steps on worlds that share their lists and dicts *)

\* A store of objects is a sequence of cells, and an object's address is its
\* position. A world object holds the addresses of its trajectory_events list
\* and of its metadata dict, as a Python object holds references to them.
ListCell(items) == [kind |-> "list", items |-> items]
DictCell(items) == [kind |-> "dict", items |-> items]
WorldCell(world, list_at, dict_at) ==
  [ kind |-> "world",
    fields |-> [world EXCEPT !.trajectory_events = list_at, !.metadata = dict_at] ]

\* The world at an address, its list and its dict read through their references.
Deref(store, at) ==
  LET fields == store[at].fields
  IN [fields EXCEPT !.trajectory_events = store[fields.trajectory_events].items,
                    !.metadata = store[fields.metadata].items]

\* A world the caller constructs: a new object with a list and a dict of its own.
Construct(store, world) ==
  LET n == Len(store)
  IN [ store |-> store \o << ListCell(world.trajectory_events), DictCell(world.metadata),
                             WorldCell(world, n + 1, n + 2) >>,
       at |-> n + 3 ]

\* The mutant of Replaced: the object at `at`, its list and its dict are
\* overwritten with the new values, and `at` is returned.
ReplacedInPlace(store, at, world) ==
  LET fields == store[at].fields
  IN [ store |-> [store EXCEPT ![fields.trajectory_events] = ListCell(world.trajectory_events),
                               ![fields.metadata] = DictCell(world.metadata),
                               ![at] = WorldCell(world, fields.trajectory_events,
                                                 fields.metadata)],
       at |-> at ]

\* What a step that returns `world` for the object at `at` leaves in the store.
\* replace(self, **kwargs) makes a new object and copies the references of the
\* fields it is not given; "trajectory_events + [token]", "{**metadata, ...}" and
\* "list(...)" make a new list or dict. So the new object shares the list or the
\* dict of the old one where the step has not changed it, and has a new one where
\* it has.
Replaced(store, at, world) ==
  LET fields == store[at].fields
      same_list == world.trajectory_events = store[fields.trajectory_events].items
      with_list == IF same_list THEN store
                   ELSE Append(store, ListCell(world.trajectory_events))
      list_at == IF same_list THEN fields.trajectory_events ELSE Len(with_list)
      same_dict == world.metadata = store[fields.metadata].items
      with_dict == IF same_dict THEN with_list
                   ELSE Append(with_list, DictCell(world.metadata))
      dict_at == IF same_dict THEN fields.metadata ELSE Len(with_dict)
  IN [ store |-> Append(with_dict, WorldCell(world, list_at, dict_at)),
       at |-> Len(with_dict) + 1 ]

\* The worlds a step returns for the object at `at`, put in the store one after
\* the other.
RECURSIVE ReplacedAll(_, _, _)
ReplacedAll(store, at, worlds) ==
  IF worlds = <<>> THEN [store |-> store, ats |-> <<>>]
  ELSE LET first == Replaced(store, at, Head(worlds))
           rest == ReplacedAll(first.store, at, Tail(worlds))
       IN [store |-> rest.store, ats |-> <<first.at>> \o rest.ats]

\* The worlds the steps start from, and the events given to the branching step:
\* events that change nothing, the trajectory only, the metadata, and choices
\* that fork a highlighted world.
ObjectInputs ==
  { Identified(Saver, 0, TRUE), Identified(Owner, 3, TRUE), Identified(Spouse, 7, FALSE) }
ObjectEvents ==
  { "nothing", "get_loan", "death", "marry", "go_on_vacation", "invest_in_stock",
    "make_extra_payment" }

\* returned is the store, active_worlds the addresses of the worlds of the
\* population, and written one record for every world object the caller built
\* or a step returned: its address and the value it had then.
InitObjects ==
  /\ args = [fn |-> "objects", user_cfg |-> CHOOSE u \in UserConfigs : TRUE]
  /\ global_cfg = GlobalConfigOf(3)
  /\ \E world \in ObjectInputs :
       LET built == Construct(<<>>, world)
       IN /\ returned = built.store
          /\ active_worlds = <<built.at>>
          /\ written = <<[at |-> built.at, world |-> world]>>
          /\ id_counter = world.id + 1
  /\ name_counter = 1
  /\ pc = "objects"
  /\ raised = ""
  /\ layer_idx = 0
  /\ next_worlds = <<>>
  /\ widx = 0
  /\ sampled_event = ""
  /\ selectable = <<>>
  /\ weights = <<>>
  /\ prev_worlds = <<>>
  /\ last = NoOperation
  /\ toggles = 0
  /\ ids_seen = {}

\* What a step on the i-th world of the population does to the store and the
\* population: the worlds it returns take the place of the one it was given.
Returned(op, name, i, worlds) ==
  LET at == active_worlds[i]
      put == ReplacedAll(returned, at, worlds)
  IN /\ returned' = put.store
     /\ active_worlds' = SubSeq(active_worlds, 1, i - 1) \o put.ats
                           \o SubSeq(active_worlds, i + 1, Len(active_worlds))
     /\ written' = written \o [k \in 1..Len(worlds) |-> [at |-> put.ats[k], world |-> worlds[k]]]
     /\ last' = [op |-> op, event |-> name, at |-> at, before |-> Deref(returned, at)]
     /\ sampled_event' = name
     /\ layer_idx' = layer_idx + 1
     /\ UNCHANGED <<pc, raised, args, global_cfg, next_worlds, widx, selectable, weights,
                    prev_worlds, toggles, ids_seen>>

\* _branch_worlds_on_event on one world of the population.
BranchObject ==
  /\ pc = "objects"
  /\ layer_idx < MaxOps
  /\ \E i \in 1..Len(active_worlds), name \in ObjectEvents, flip \in BOOLEAN :
       LET out == _branch_worlds_on_event(Deref(returned, active_worlds[i]), name, global_cfg,
                    args.user_cfg, flip, 10, Some(name_counter), Some(id_counter))
       IN /\ name_counter' = out.name_allocator[1]
          /\ id_counter' = out.id_allocator[1]
          /\ Returned("branch", name, i, out.results)

\* apply_loan_repayment on one world of the population.
RepayObject ==
  /\ pc = "objects"
  /\ layer_idx < MaxOps
  /\ \E i \in 1..Len(active_worlds) :
       Returned("economic", "", i,
                <<apply_loan_repayment(Deref(returned, active_worlds[i]), global_cfg)>>)
  /\ UNCHANGED <<name_counter, id_counter>>

\* apply_take_loan on one world of the population.
LoanObject ==
  /\ pc = "objects"
  /\ layer_idx < MaxOps
  /\ \E i \in 1..Len(active_worlds) :
       Returned("take_loan", "", i,
                <<apply_take_loan(Deref(returned, active_worlds[i]), Some(layer_idx),
                                  global_cfg, 200000, None, None)>>)
  /\ UNCHANGED <<name_counter, id_counter>>

\* Line 506: world.copy_with_updates(highlight=not world.highlight).
ToggleObject ==
  /\ pc = "objects"
  /\ layer_idx < MaxOps
  /\ \E i \in 1..Len(active_worlds) :
       LET world == Deref(returned, active_worlds[i])
       IN Returned("toggle", "", i,
                   <<copy_with_updates(world, [highlight |-> ~ world.highlight])>>)
  /\ UNCHANGED <<name_counter, id_counter>>

NextObjects == BranchObject \/ RepayObject \/ LoanObject \/ ToggleObject

SpecObjects == InitObjects /\ [][NextObjects]_vars

-----------------------------------------------------------------------------
(* Two callers renaming additional branches on shared allocators *)

\* The two branching steps that share a NameAllocator and an IdAllocator.
Callers == {1, 2}

MaxRenames == 1     \* the number of additional branches each caller renames

\* The counters of the shared allocators when the callers start, as
\* <<name counter, id counter>>: new ones, and a name counter on the last name
\* of the list.
SharedCounters == { <<0, 0>>, <<Len(DEFAULT_WORLD_NAMES) - 1, 7>> }

\* A caller's local variables: the counters when its call began, and name,
\* current and the value read for the "+= 1" under way.
NoLocals == [names_at |-> 0, ids_at |-> 0, name |-> "", current |-> 0, loaded |-> 0]

\* args.serialized: the calls are made one after the other, as by the loop over
\* the active worlds of one simulate_layers call; otherwise the callers run
\* side by side with nothing that orders their steps.
InitShared ==
  /\ args \in { [fn |-> "rename", serialized |-> b] : b \in BOOLEAN }
  /\ \E c \in SharedCounters : name_counter = c[1] /\ id_counter = c[2]
  /\ pc = [t \in Callers |-> "idle"]
  /\ last = [t \in Callers |-> NoLocals]
  /\ returned = [t \in Callers |-> <<>>]
  /\ global_cfg = GlobalConfigOf(3)
  /\ raised = ""
  /\ layer_idx = 0
  /\ active_worlds = <<>>
  /\ next_worlds = <<>>
  /\ widx = 0
  /\ sampled_event = ""
  /\ selectable = <<>>
  /\ weights = <<>>
  /\ prev_worlds = <<>>
  /\ written = <<>>
  /\ toggles = 0
  /\ ids_seen = {}

\* What a step of a caller leaves alone.
SharedFrame ==
  UNCHANGED <<args, global_cfg, layer_idx, active_worlds, next_worlds, widx, sampled_event,
              selectable, weights, prev_worlds, written, toggles, ids_seen>>

\* The mutant of MayEnter: a caller starts whatever the other is doing.
MayEnterAnyway(t) == TRUE

\* The loop over the active worlds makes its calls one at a time: a serialized
\* caller starts only when no other call is under way.
MayEnter(t) ==
  args.serialized => \A u \in Callers \ {t} : pc[u] \in {"idle", "error"}

\* Lines 432-436: the caller reaches the renaming of an additional branch.
Enter ==
  \E t \in Callers :
    /\ pc[t] = "idle"
    /\ Len(returned[t]) < MaxRenames
    /\ MayEnter(t)
    /\ pc' = [pc EXCEPT ![t] = "name_test"]
    /\ last' = [last EXCEPT ![t] = [NoLocals EXCEPT !.names_at = name_counter,
                                                      !.ids_at = id_counter]]
    /\ UNCHANGED <<raised, name_counter, id_counter, returned>>
    /\ SharedFrame

\* Line 234: if self._counter < len(self._names).
NameTest ==
  \E t \in Callers :
    /\ pc[t] = "name_test"
    /\ pc' = [pc EXCEPT ![t] = IF name_counter < Len(DEFAULT_WORLD_NAMES)
                                THEN "name_index" ELSE "name_format"]
    /\ UNCHANGED <<raised, name_counter, id_counter, last, returned>>
    /\ SharedFrame

\* Line 235: name = self._names[self._counter], the counter read once more.
NameIndex ==
  \E t \in Callers :
    /\ pc[t] = "name_index"
    /\ IF name_counter < Len(DEFAULT_WORLD_NAMES)
       THEN /\ last' = [last EXCEPT ![t].name = DEFAULT_WORLD_NAMES[name_counter + 1]]
            /\ pc' = [pc EXCEPT ![t] = "name_load"]
            /\ UNCHANGED raised
       ELSE /\ pc' = [pc EXCEPT ![t] = "error"]
            /\ raised' = "IndexError"
            /\ UNCHANGED last
    /\ UNCHANGED <<name_counter, id_counter, returned>>
    /\ SharedFrame

\* Line 237: name = f"World_{self._counter + 1}".
NameFormat ==
  \E t \in Callers :
    /\ pc[t] = "name_format"
    /\ last' = [last EXCEPT ![t].name = "World_" \o ToString(name_counter + 1)]
    /\ pc' = [pc EXCEPT ![t] = "name_load"]
    /\ UNCHANGED <<raised, name_counter, id_counter, returned>>
    /\ SharedFrame

\* Line 238, self._counter += 1: the counter is read ...
NameLoad ==
  \E t \in Callers :
    /\ pc[t] = "name_load"
    /\ last' = [last EXCEPT ![t].loaded = name_counter]
    /\ pc' = [pc EXCEPT ![t] = "name_store"]
    /\ UNCHANGED <<raised, name_counter, id_counter, returned>>
    /\ SharedFrame

\* ... and the value read, plus one, is stored; next_name returns (line 239).
NameStore ==
  \E t \in Callers :
    /\ pc[t] = "name_store"
    /\ name_counter' = last[t].loaded + 1
    /\ pc' = [pc EXCEPT ![t] = "id_read"]
    /\ UNCHANGED <<raised, id_counter, last, returned>>
    /\ SharedFrame

\* Line 249: current = self._counter.
IdRead ==
  \E t \in Callers :
    /\ pc[t] = "id_read"
    /\ last' = [last EXCEPT ![t].current = id_counter]
    /\ pc' = [pc EXCEPT ![t] = "id_load"]
    /\ UNCHANGED <<raised, name_counter, id_counter, returned>>
    /\ SharedFrame

\* Line 250, self._counter += 1: the counter is read ...
IdLoad ==
  \E t \in Callers :
    /\ pc[t] = "id_load"
    /\ last' = [last EXCEPT ![t].loaded = id_counter]
    /\ pc' = [pc EXCEPT ![t] = "id_store"]
    /\ UNCHANGED <<raised, name_counter, id_counter, returned>>
    /\ SharedFrame

\* ... and the value read, plus one, is stored; next_id returns current (line
\* 251) and the branch gets the name and the id (lines 433-436).
IdStore ==
  \E t \in Callers :
    /\ pc[t] = "id_store"
    /\ id_counter' = last[t].loaded + 1
    /\ returned' = [returned EXCEPT ![t] = Append(@, [ name |-> last[t].name,
                                                       id |-> last[t].current,
                                                       names_at |-> last[t].names_at,
                                                       ids_at |-> last[t].ids_at ])]
    /\ pc' = [pc EXCEPT ![t] = "idle"]
    /\ UNCHANGED <<raised, name_counter, last>>
    /\ SharedFrame

NextShared ==
  \/ Enter \/ NameTest \/ NameIndex \/ NameFormat \/ NameLoad \/ NameStore
  \/ IdRead \/ IdLoad \/ IdStore

SpecShared == InitShared /\ [][NextShared]_vars

-----------------------------------------------------------------------------
(* Properties *)

IsPrefix(s, t) == Len(s) <= Len(t) /\ SubSeq(t, 1, Len(s)) = s

\* The call is in its layer loop or has returned.
Running == pc \in {"layer", "toggle", "sample", "branch", "done"}

\* The worlds of the run at this point: inside the loop over the active worlds,
\* the results so far and the worlds not yet branched.
Population ==
  IF pc = "branch"
  THEN next_worlds \o SubSeq(active_worlds, widx + 1, Len(active_worlds))
  ELSE active_worlds

\* The most recent operation is a _branch_worlds_on_event call.
Branched == last.op = "branch"

\* The most recent call was given a choice and a world whose highlight is `flag`.
ChoiceOn(flag) ==
  /\ Branched
  /\ is_choice(last.event)
  /\ HasAttr(last.world, "highlight")
  /\ last.world.highlight = flag

\* The two outcomes of the most recent call's choice.
Happened == apply(last.event, last.world, global_cfg, args.user_cfg, 10)
NotChosen ==
  copy_with_updates(last.world,
    [trajectory_events |-> Append(last.world.trajectory_events, last.event \o "_not_chosen")])

\* C1 (lineage uniqueness): throughout a run of simulate_layers or run_scenario
\* the worlds of the run carry pairwise distinct ids, at every layer boundary and
\* inside a layer, and the id given to the additional world of a fork is one no
\* world of the run has carried before.
C1_LineageUniqueness ==
  Running =>
    /\ \A i, j \in 1..Len(Population) : i # j => Population[i].id # Population[j].id
    /\ Branched =>
         \A i \in 2..Len(last.out.results) : last.out.results[i].id \notin last.issued_before

\* C1 witness: a run of two layers has returned three or more worlds, so it forked
\* in both layers.
C1_Witness ==
  /\ pc = "done"
  /\ layer_idx = 2
  /\ Len(active_worlds) >= 3
  /\ \E i \in 1..Len(active_worlds) : active_worlds[i].id >= id_counter - 1

\* C2 (branching correctness): a choice on a highlighted world with a probability
\* strictly between 0 and 1 raises nothing, draws no random number and returns
\* exactly two worlds: the world where the choice happened, which keeps the input
\* world's id, and the world tagged <choice>_not_chosen, whose id is the one the
\* id allocator held, advanced by one, and carried by no earlier world of the run.
C2_BranchingCorrectness ==
  (ChoiceOn(TRUE) /\ 0 < last.probability /\ last.probability < 100000) =>
    /\ last.out.raised = ""
    /\ last.out.draws = 0
    /\ Len(last.out.results) = 2
    /\ last.out.results[1] = Happened
    /\ last.out.results[1].id = last.world.id
    /\ last.out.results[2].trajectory_events = NotChosen.trajectory_events
    /\ last.out.results[2].id = last.id_before[1]
    /\ last.out.id_allocator = Some(last.id_before[1] + 1)
    /\ last.out.results[2].id # last.world.id
    /\ last.out.results[2].id \notin last.issued_before

\* C2 witness: in the second layer of a run a highlighted world that came out of
\* a fork is forked on a choice of probability strictly between 0 and 1.
C2_Witness ==
  /\ ChoiceOn(TRUE)
  /\ 0 < last.probability /\ last.probability < 100000
  /\ layer_idx = 1
  /\ Cardinality(last.issued_before) >= 2
  /\ Len(last.out.results) = 2

\* C3 (identity continuity on a fork): when a call returns more than one world,
\* the first keeps the input world's id and name, the i-th additional one has the
\* i-th id and the i-th name the allocators held, and each allocator has advanced
\* by exactly the number of additional worlds.
C3_IdentityContinuity ==
  (Branched /\ Len(last.out.results) > 1) =>
    LET results == last.out.results
    IN /\ results[1].id = last.world.id
       /\ results[1].name = last.world.name
       /\ \A i \in 2..Len(results) :
            /\ results[i].id = last.id_before[1] + (i - 2)
            /\ results[i].name = next_name(DEFAULT_WORLD_NAMES, last.name_before[1] + (i - 2))
       /\ last.out.id_allocator = Some(last.id_before[1] + Len(results) - 1)
       /\ last.out.name_allocator = Some(last.name_before[1] + Len(results) - 1)

\* C3 witness: a call has returned two worlds and the second has a name of the
\* World_<n> fallback and the id the allocator held.
C3_Witness ==
  /\ pc = "done"
  /\ Branched
  /\ Len(next_worlds) = 2
  /\ next_worlds[2].name = "World_201"
  /\ next_worlds[2].id = 12
  /\ next_worlds[1].id = active_worlds[1].id

\* C4 (non-choice events never fork): a call with a non-choice event raises
\* nothing and returns exactly one world, whatever the probability and whatever
\* the highlight flag; the world has the input world's name, its id where the
\* input carries one, and the allocators are left as they were.
C4_EventsNeverFork ==
  (Branched /\ ~ is_choice(last.event)) =>
    /\ last.out.raised = ""
    /\ Len(last.out.results) = 1
    /\ last.out.results[1].name = last.world.name
    /\ DOMAIN last.out.results[1] = DOMAIN last.world
    /\ HasAttr(last.world, "id") => last.out.results[1].id = last.world.id
    /\ last.out.name_allocator = last.name_before
    /\ last.out.id_allocator = last.id_before

\* C4 witness: a non-choice event of probability strictly between 0 and 1 was
\* applied to a highlighted world, and one world came back.
C4_Witness ==
  /\ Branched
  /\ ~ is_choice(last.event)
  /\ HasAttr(last.world, "highlight") /\ last.world.highlight
  /\ 0 < last.probability /\ last.probability < 100000
  /\ last.flip
  /\ Len(next_worlds) = 1
  /\ next_worlds[1].trajectory_events = <<last.event>>

C6_NamesNeverRepeat ==
  \A i, j \in 1..Len(returned) : i # j => returned[i] # returned[j]

\* C7 (one token per handler): every handler of the registry, applied to any
\* world, returns a world whose trajectory_events is the input's trajectory
\* followed by exactly one token.
C7_OneTokenPerHandler ==
  last.op = "handler" =>
    /\ ~ IsError(last.after)
    /\ Len(last.after.trajectory_events) = Len(last.before.trajectory_events) + 1
    /\ IsPrefix(last.before.trajectory_events, last.after.trajectory_events)

\* C7 witness: a handler was applied to a world that already had a token, and
\* the result has both, the old one first.
C7_Witness ==
  /\ last.op = "handler"
  /\ pc = "ops"
  /\ Len(last.before.trajectory_events) = 1
  /\ Len(active_worlds[1].trajectory_events) = 2
  /\ active_worlds[1].trajectory_events[1] = last.before.trajectory_events[1]

\* C8 (tokens per layer): a simulate_layers call that is given no initial worlds
\* gets into its layer loop, and whenever k layers are complete each of its
\* active worlds has exactly k tokens.
C8_FreshRunTokenCount ==
  (args.fn = "simulate_layers" /\ args.seed = "none" /\ pc # "idle") =>
    /\ pc # "error"
    /\ pc \in {"layer", "done"} =>
         \A i \in 1..Len(active_worlds) :
           Len(active_worlds[i].trajectory_events) = layer_idx

\* C9 (append-only history): at every point of a layer, and at its end, each
\* world of the run has a trajectory that begins with the whole trajectory of a
\* world that was active when the layer began.
C9_AppendOnly ==
  Running =>
    \A i \in 1..Len(Population) :
      \E j \in 1..Len(prev_worlds) :
        IsPrefix(prev_worlds[j].trajectory_events, Population[i].trajectory_events)

\* C9 witness: a second layer is complete, and a world that began the run with a
\* token has two more after it.
C9_Witness ==
  /\ pc = "layer"
  /\ layer_idx = 2
  /\ \E i \in 1..Len(active_worlds) :
       /\ Len(active_worlds[i].trajectory_events) = 3
       /\ active_worlds[i].trajectory_events[1] = "initial_loan"
       /\ \E j \in 1..Len(prev_worlds) :
            /\ Len(prev_worlds[j].trajectory_events) = 2
            /\ IsPrefix(prev_worlds[j].trajectory_events, active_worlds[i].trajectory_events)

\* C10 (non-negativity): from a world whose cash, loan, stock value, property
\* price and income are non-negative, with a non-negative monthly payment, every
\* sequence of handlers, economic steps and loan injections leaves cash,
\* current_loan, stock_value and property_price non-negative.
C10_NonNegative ==
  pc = "ops" =>
    \A i \in 1..Len(active_worlds) :
      /\ active_worlds[i].cash >= 0
      /\ active_worlds[i].current_loan >= 0
      /\ active_worlds[i].stock_value >= 0
      /\ active_worlds[i].property_price >= 0

\* C10 witness: a cost larger than the cash at hand was charged after an earlier
\* operation, and the cash is zero.
C10_Witness ==
  /\ pc = "ops"
  /\ layer_idx = 2
  /\ last.op = "handler"
  /\ last.event = "go_on_vacation"
  /\ last.before.cash > 0 /\ last.before.cash < 2000
  /\ active_worlds[1].cash = 0

\* The worlds at positions 1..Len(before) of `after` are those of `before` after
\* one step that keeps the order: the relation holds for each world and its successor.
StepKeeps(before, after, Kept(_, _)) ==
  /\ Len(after) = Len(before)
  /\ \A i \in 1..Len(before) : Kept(before[i], after[i])

\* The most recent step of the driver took each world w of `before` to a world
\* related to it by Kept: the economic step (with the loan injection before it),
\* the highlight toggle, and the branching step for each of its results.
EveryStep(Kept(_, _)) ==
  /\ pc = "toggle" => StepKeeps(prev_worlds, active_worlds, Kept)
  /\ (pc = "sample" /\ last.op = "toggle") => StepKeeps(last.before, active_worlds, Kept)
  /\ (Branched /\ pc # "error") =>
       \A i \in 1..Len(last.out.results) : Kept(last.world, last.out.results[i])

\* C11 (bankruptcy is sticky): a world that is bankrupt before a step of the
\* driver -- the economic step, the highlight toggle, the branching step with its
\* handler, skip or fork -- is bankrupt after it, and so is every world the
\* branching step makes of it.
C11_BankruptcySticky ==
  EveryStep(LAMBDA w, v : w.bankrupt => v.bankrupt)

\* C11 witness: a run of two layers has returned two worlds, both bankrupt, one of
\* them forked off the other after it went bankrupt.
C11_Witness ==
  /\ pc = "done"
  /\ layer_idx = 2
  /\ \E i, j \in 1..Len(active_worlds) :
       /\ active_worlds[i].bankrupt /\ active_worlds[j].bankrupt
       /\ active_worlds[i].id = 3
       /\ active_worlds[j].id \notin {3, 7}
       /\ active_worlds[j].current_loan = active_worlds[i].current_loan

\* What a step may not change of a deceased world.
DeceasedStays(w, v) ==
  w.health_status = "deceased" =>
    /\ v.health_status = "deceased"
    /\ v.current_income = w.current_income
    /\ v.family_status = w.family_status
    /\ v.children = w.children

\* C12 (death is absorbing): for a deceased world the branching step of every
\* later layer raises nothing and returns exactly one world, the input with the
\* token <event>_not_chosen (a choice) or <event>_skipped (an event) appended and
\* nothing else changed, so no handler's result is kept and the world never
\* forks; and no step of the driver changes its health_status, income,
\* family_status or children.
C12_DeathAbsorbing ==
  /\ EveryStep(DeceasedStays)
  /\ (Branched /\ last.world.health_status = "deceased") =>
       /\ last.out.raised = ""
       /\ Len(last.out.results) = 1
       /\ last.out.results[1] =
            copy_with_updates(last.world,
              [trajectory_events |->
                 Append(last.world.trajectory_events,
                        last.event \o (IF is_choice(last.event) THEN "_not_chosen"
                                       ELSE "_skipped"))])

\* C12 witness: a highlighted world died in the first layer of a run (its income
\* is 0), and in the second layer a choice was sampled for it.
C12_Witness ==
  /\ Branched
  /\ args.seed = "saver"
  /\ layer_idx = 1
  /\ last.world.trajectory_events = <<"death">>
  /\ last.world.health_status = "deceased"
  /\ last.world.current_income = 0
  /\ last.world.highlight
  /\ is_choice(last.event)
  /\ Len(next_worlds) = 1
  /\ next_worlds[1].trajectory_events = <<"death", last.event \o "_not_chosen">>

\* The amounts of the economic step most recently applied, computed from the
\* world it was applied to: the cash after income, the target payment (the
\* world's override if set, else the configured payment; or a tenth of the cash
\* after income, whichever is larger) and the payment actually made.
StepCashAfterIncome == last.before.cash + last.before.current_income
StepTargetPayment ==
  Max(IF "monthly_payment_override" \in DOMAIN last.before.metadata
      THEN last.before.metadata.monthly_payment_override
      ELSE IF "monthly_loan_payment" \in DOMAIN global_cfg.extras
      THEN global_cfg.extras.monthly_loan_payment
      ELSE 0,
      StepCashAfterIncome \div 10)
StepActualPayment == Min(StepTargetPayment, StepCashAfterIncome)

\* C13 (economic step result): apply_loan_repayment returns a world whose loan is
\* the input's less min(actual_payment, current_loan), whose cash is the cash
\* after income less the whole actual_payment -- also when the payment exceeds
\* the loan or the loan is zero -- and whose other fields, bankrupt aside, are
\* the input's.
C13_EconomicStepResult ==
  last.op = "economic" =>
    /\ ~ IsError(last.after)
    /\ DOMAIN last.after = DOMAIN last.before
    /\ last.after.current_loan =
         last.before.current_loan - Min(StepActualPayment, last.before.current_loan)
    /\ last.after.cash = StepCashAfterIncome - StepActualPayment
    /\ \A f \in DOMAIN last.before \ {"current_loan", "cash", "bankrupt"} :
         last.after[f] = last.before[f]

\* C13 witness: an economic step on a world whose payment (1000, all its cash
\* after income) exceeds its loan (500): the loan is cleared and the cash is gone.
C13_Witness ==
  /\ last.op = "economic"
  /\ pc = "ops"
  /\ last.before.current_loan = 500
  /\ StepActualPayment = 1000
  /\ active_worlds[1].current_loan = 0
  /\ active_worlds[1].cash = 0

\* C14 (bankruptcy trigger): the economic step leaves a world bankrupt exactly
\* when it was bankrupt before, or the cash after income is less than the target
\* payment and the loan is still above zero after the payment.
C14_BankruptcyTrigger ==
  last.op = "economic" =>
    (last.after.bankrupt <=>
       \/ last.before.bankrupt
       \/ (StepCashAfterIncome < StepTargetPayment /\ last.after.current_loan > 0))

\* C19 (marry is idempotent): the marry handler turns a world that is not married
\* into the same world with family_status married and the token marry appended;
\* applied to a married world -- so also when applied a second time in a row --
\* it returns the same world with only the token marry_no_change appended.
C19_MarryIdempotent ==
  (last.op = "handler" /\ last.event = "marry") =>
    last.after =
      IF last.before.family_status # "married"
      THEN copy_with_updates(last.before,
             [ family_status |-> "married",
               trajectory_events |-> Append(last.before.trajectory_events, "marry") ])
      ELSE copy_with_updates(last.before,
             [ trajectory_events |->
                 Append(last.before.trajectory_events, "marry_no_change") ])

\* C19 witness: marry was applied twice in a row to a divorced world; it is
\* married, and its history is marry, marry_no_change.
C19_Witness ==
  /\ pc = "ops"
  /\ last.op = "handler" /\ last.event = "marry"
  /\ active_worlds[1].name = "Diana"
  /\ active_worlds[1].family_status = "married"
  /\ active_worlds[1].trajectory_events = <<"marry", "marry_no_change">>
  /\ prev_worlds[1].family_status = "married"

\* The most recent operation is an evaluation of event_probability.
Evaluated == last.op = "probability"

\* C15 (probability range): event_probability returns a value in [0, 1] for every
\* event of the registry, every world, every risk_factor -- negative and very
\* large ones too -- and every layer index.
C15_ProbabilityInRange ==
  Evaluated => (0 <= last.value /\ last.value <= 100000)

\* C15 witness: with a very large risk_factor and a layer index, a feasible event
\* has probability exactly 1.
C15_Witness ==
  /\ Evaluated
  /\ global_cfg.risk_factor = 1000
  /\ last.layer # None
  /\ last.value = 100000

\* C16 (marry is infeasible when married): the probability of marry is 0 for
\* every married world, whatever the configuration and the layer index.
C16_MarriedNeverMarry ==
  (Evaluated /\ last.event = "marry" /\ last.world.family_status = "married") =>
    last.value = 0

\* C16 witness: marry was evaluated, with a layer index and the largest
\* risk_factor, for a married world that is alive and not terminated.
C16_Witness ==
  /\ Evaluated
  /\ last.event = "marry"
  /\ last.world.family_status = "married"
  /\ last.world.health_status = "healthy"
  /\ "world_status" \notin DOMAIN last.world.metadata
  /\ last.layer = Some(13)
  /\ global_cfg.risk_factor = 1000
  /\ last.value = 0

\* C17 (nothing is feasible after the end): the probability of every event of the
\* registry is 0 for a world that is deceased or whose metadata.world_status is
\* terminated, whatever the configuration and the layer index.
C17_EndedWorldsInfeasible ==
  (Evaluated /\ (\/ last.world.health_status = "deceased"
                 \/ DictGet(last.world.metadata, "world_status", "") = "terminated")) =>
    last.value = 0

\* C17 witness: an event without a feasibility rule of its own was evaluated for
\* a healthy world that is terminated, under the largest risk_factor.
C17_Witness ==
  /\ Evaluated
  /\ last.event = "inheritance"
  /\ last.world.health_status = "healthy"
  /\ DictGet(last.world.metadata, "world_status", "") = "terminated"
  /\ global_cfg.risk_factor = 1000
  /\ last.value = 0

\* C18 (probability zero): when the probability is <= 0 the branching step
\* raises nothing, draws nothing and returns exactly one world, the input with
\* one token appended and nothing else changed: <event>_not_chosen for a choice,
\* highlighted or not, and <event>_skipped for an event.
C18_ZeroProbability ==
  (/\ Branched
   /\ last.probability <= 0
   /\ is_choice(last.event) => HasAttr(last.world, "highlight")) =>
    /\ last.out.raised = ""
    /\ last.out.draws = 0
    /\ Len(last.out.results) = 1
    /\ last.out.results[1] =
         copy_with_updates(last.world,
           [trajectory_events |->
              Append(last.world.trajectory_events,
                     last.event \o (IF is_choice(last.event) THEN "_not_chosen"
                                    ELSE "_skipped"))])
    /\ last.out.name_allocator = last.name_before
    /\ last.out.id_allocator = last.id_before

\* C18 witness: a choice whose handler would have moved cash into stock had
\* probability 0 on a highlighted world; the one world returned is the input
\* with the _not_chosen token.
C18_Witness ==
  /\ ChoiceOn(TRUE)
  /\ last.event = "invest_in_stock"
  /\ last.probability = 0
  /\ last.flip
  /\ Happened.stock_value # last.world.stock_value
  /\ next_worlds = <<NotChosen>>

\* C20 (loan injection): a run_scenario call gets into its layer loop, and after
\* the first part of each layer every world is the economic step's result on the
\* world the layer began with -- at the layer take_loan_at_layer, on that world
\* with loan_amount * (1 + mortgage_rate) added to both its loan and its cash by
\* apply_take_loan; at any other layer, on that world as it was.
C20_LoanInjection ==
  (args.fn = "run_scenario" /\ pc # "idle") =>
    /\ raised = ""
    /\ pc = "toggle" =>
         /\ Len(active_worlds) = Len(prev_worlds)
         /\ \A i \in 1..Len(prev_worlds) :
              LET effective_amount ==
                    (args.loan_amount * (100 + global_cfg.mortgage_rate)) \div 100
                  injected == apply_take_loan(prev_worlds[i], Some(layer_idx), global_cfg,
                                              args.loan_amount, None, None)
              IN IF layer_idx = args.take_loan_at_layer
                 THEN /\ injected.current_loan = prev_worlds[i].current_loan + effective_amount
                      /\ injected.cash = prev_worlds[i].cash + effective_amount
                      /\ active_worlds[i] = apply_loan_repayment(injected, global_cfg)
                 ELSE active_worlds[i] = apply_loan_repayment(prev_worlds[i], global_cfg)

\* The call has ended: it has returned or it has raised.
Ended == pc \in {"done", "error"}

\* C21 (the 'nothing' scenario): a one-layer call for the user with income 75000
\* and age 30, single, mortgage rate 0.04 and risk factor 0.3, whose catalog is
\* the event nothing with weight 1.0 and no choice, ends by returning exactly one
\* world, whose trajectory is <<"nothing">> and whose loan is 0 -- whether the
\* call makes its first world or is given it.
C21_NothingScenario ==
  ( /\ Ended
    /\ args.catalog = "idle"
    /\ args.seed \in {"none", "newcomer"}
    /\ args.num_layers = 1
    /\ args.risk_factor = 3
    /\ args.user_cfg.age = 30 /\ args.user_cfg.income = 75000 ) =>
    /\ pc = "done"
    /\ Len(active_worlds) = 1
    /\ active_worlds[1].trajectory_events = <<"nothing">>
    /\ active_worlds[1].current_loan = 0

\* The catalog of the call has at least one entry of the registry.
NonEmptyCatalog ==
  LET catalog == Catalog(args.catalog)
  IN \/ _build_weighted(catalog.event_names, catalog.event_probabilities).items # <<>>
     \/ _build_weighted(catalog.choice_names, catalog.choice_probabilities).items # <<>>

\* The snapshots written so far are one for each finished layer, in layer order,
\* each stamped with its layer's index.
OneSnapshotPerLayer(layers) ==
  /\ Len(written) = layers
  /\ \A k \in 1..Len(written) : written[k].timestamp = k - 1

\* C22 (layer driver): a call of simulate_layers or run_scenario with a non-empty
\* catalog never raises; it works through the layers 0, 1, ... in order and
\* returns after exactly num_layers of them (its initial worlds when num_layers is
\* 0); with an output directory it has written, at each layer boundary, one
\* snapshot per finished layer, stamped with the layer's index and holding the
\* worlds that layer's branching produced.
C22_LayerDriver ==
  (NonEmptyCatalog /\ pc # "idle") =>
    /\ pc # "error"
    /\ layer_idx <= args.num_layers
    /\ pc = "done" => layer_idx = args.num_layers
    /\ (pc = "done" /\ args.num_layers = 0) => active_worlds = prev_worlds
    /\ pc \in {"layer", "done"} =>
         IF args.output_dir = None THEN written = <<>>
         ELSE /\ OneSnapshotPerLayer(layer_idx)
              /\ layer_idx > 0 => written[layer_idx].worlds = active_worlds

\* What a token may have after the name of the event it comes from.
TokenSuffixes ==
  { "", "_skipped", "_not_chosen", "_no_change", "_no_cash", "_no_position",
    "_skipped_has_property" }

\* The token is the event's name, or the name followed by a suffix.
DerivesFrom(token, name) == \E suffix \in TokenSuffixes : token = name \o suffix

\* The world has the trajectory of a world that began the layer, and after it
\* one token of the event `name`.
OneTokenOf(world, name) ==
  \E j \in 1..Len(prev_worlds) :
    /\ Len(world.trajectory_events) = Len(prev_worlds[j].trajectory_events) + 1
    /\ IsPrefix(prev_worlds[j].trajectory_events, world.trajectory_events)
    /\ DerivesFrom(world.trajectory_events[Len(world.trajectory_events)], name)

\* C23 (one event per layer): the event of a layer is one entry of the combined
\* catalog; each _branch_worlds_on_event call of the layer is given that event;
\* and every world the layer has produced so far, and every world active when the
\* layer is over, has the trajectory of a world that began the layer followed by
\* one token, which is the name of the layer's event or that name and a suffix.
C23_OneEventPerLayer ==
  /\ pc = "branch" =>
       /\ \E k \in 1..Len(selectable) : sampled_event = selectable[k]
       /\ Branched => last.event = sampled_event
       /\ \A i \in 1..Len(next_worlds) : OneTokenOf(next_worlds[i], sampled_event)
  /\ (pc \in {"layer", "done"} /\ layer_idx > 0) =>
       \A i \in 1..Len(active_worlds) : OneTokenOf(active_worlds[i], sampled_event)

\* C23 witness: the second layer of a run is over with three or more worlds
\* whose newest tokens are not all the same, all of them of the one event sampled
\* from a catalog of several.
C23_Witness ==
  /\ pc = "layer"
  /\ layer_idx = 2
  /\ Len(selectable) >= 4
  /\ Len(active_worlds) >= 3
  /\ \E i, j \in 1..Len(active_worlds) :
       /\ active_worlds[i].trajectory_events[Len(active_worlds[i].trajectory_events)]
            = sampled_event
       /\ active_worlds[j].trajectory_events[Len(active_worlds[j].trajectory_events)]
            = sampled_event \o "_not_chosen"

\* The names the call's catalog configures, events first.
ConfiguredNames == Catalog(args.catalog).event_names \o Catalog(args.catalog).choice_names

\* The weights the settings give the configured names.
ConfiguredWeights ==
  Catalog(args.catalog).event_probabilities @@ Catalog(args.catalog).choice_probabilities

\* The configured names that are not in the registry.
UnknownNames ==
  { ConfiguredNames[i] : i \in 1..Len(ConfiguredNames) } \ RegistryNames

\* C24 (unknown names are recoverable): when the catalog of a call names
\* something the registry does not have, besides entries it has, then from the
\* moment the catalog is built the selectable entries are the configured names of
\* the registry in their order, each with its configured weight or 0.5; the
\* event sampled in a layer is never an unknown name; nothing is raised; and the
\* call returns after exactly num_layers layers.
C24_UnknownNamesDropped ==
  (UnknownNames # {} /\ NonEmptyCatalog) =>
    /\ Running =>
         /\ selectable = SelectSeq(ConfiguredNames, LAMBDA n : n \notin UnknownNames)
         /\ Len(weights) = Len(selectable)
         /\ \A i \in 1..Len(selectable) :
              weights[i] = DictGet(ConfiguredWeights, selectable[i], 50)
         /\ sampled_event \notin UnknownNames
         /\ Branched => last.event \in RegistryNames
    /\ pc = "error" => last.op = "none"
    /\ pc = "done" => layer_idx = args.num_layers

\* C24 witness: a call whose catalog has five names, one of them unknown, has
\* returned after two layers; it sampled from the four others, one of which has a
\* configured weight and three the default.
C24_Witness ==
  /\ pc = "done"
  /\ layer_idx = 2
  /\ args.num_layers = 2
  /\ Len(ConfiguredNames) = 5
  /\ UnknownNames = {"no_such_event"}
  /\ Len(selectable) = 4
  /\ weights = <<50, 50, 30, 50>>
  /\ sampled_event \in RegistryNames
  /\ \A i \in 1..Len(active_worlds) : Len(active_worlds[i].trajectory_events) = 2

\* C25 (an empty catalog is fatal before any layer): a call whose catalog has no
\* entry of the registry raises before its first layer: it never gets into the
\* layer loop, performs no economic step, toggle, sampling or snapshot, and
\* never returns, whatever num_layers is.
C25_EmptyCatalogFatal ==
  (~ NonEmptyCatalog /\ pc # "idle") =>
    /\ pc = "error"
    /\ last.op = "none"
    /\ written = <<>>

\* The most recent call has both outcomes of its event to return: a choice on a
\* highlighted world with a probability strictly between 0 and 1.
WouldFork == ChoiceOn(TRUE) /\ 0 < last.probability /\ last.probability < 100000

\* The most recent call can read what it needs from its world: a choice reads
\* world.highlight.
Readable == Branched /\ (is_choice(last.event) => HasAttr(last.world, "highlight"))

\* C26 (allocator misuse): a call that has two worlds to return and was given no
\* name allocator, or no id allocator, raises ValueError and returns nothing, the
\* allocator it was given left as it was; a call that has one world to return
\* returns it and raises nothing, with or without allocators.
C26_AllocatorMisuse ==
  Readable =>
    IF WouldFork
    THEN (last.name_before = None \/ last.id_before = None) =>
           /\ last.out.raised = "ValueError"
           /\ raised = "ValueError"
           /\ pc = "error"
           /\ last.out.results = <<>>
           /\ next_worlds = <<>>
           /\ last.out.name_allocator = last.name_before
           /\ last.out.id_allocator = last.id_before
    ELSE /\ last.out.raised = ""
         /\ pc = "done"
         /\ Len(last.out.results) = 1
         /\ next_worlds = last.out.results

\* C26 witness: a call that was given an id allocator and no name allocator had
\* two worlds to return and raised ValueError.
C26_Witness ==
  /\ WouldFork
  /\ last.name_before = None
  /\ last.id_before # None
  /\ raised = "ValueError"
  /\ next_worlds = <<>>

\* A call that was given no allocator at all returned its one world.
ReturnedOneWithoutAllocators ==
  /\ Readable
  /\ ~ WouldFork
  /\ last.name_before = None /\ last.id_before = None
  /\ Len(next_worlds) = 1

\* C27 (determinism): two calls of the branching step with the same world, event,
\* configuration and allocators, each with an rng that gives the same draws,
\* return the same worlds.
C27_Deterministic ==
  last.op = "twice" =>
    /\ next_worlds = returned
    /\ last.first = last.second

\* The positions of the token in a trajectory. A run appends one token per layer
\* to each world, so positions differ by the number of layers between them.
PositionsOf(token, trajectory) == { k \in 1..Len(trajectory) : trajectory[k] = token }

\* C29 (vacation spacing): in a run, go_on_vacation has probability 0 for a world
\* whose trajectory has go_on_vacation among its latest 11 tokens, and any two
\* go_on_vacation tokens of one world are 12 or more layers apart.
C29_VacationSpacing ==
  Running =>
    /\ (Branched /\ last.event = "go_on_vacation") =>
         \A k \in PositionsOf("go_on_vacation", last.world.trajectory_events) :
           Len(last.world.trajectory_events) - k + 1 < 12 => last.probability = 0
    /\ \A i \in 1..Len(Population) :
         \A j, k \in PositionsOf("go_on_vacation", Population[i].trajectory_events) :
           j < k => k - j >= 12

\* C30 (derived age): the probability a _branch_worlds_on_event call of layer k
\* uses is the probability of its event computed with the layer index k, that
\* is, with the age user_cfg.age + k/12.
C30_DerivedAge ==
  (pc = "branch" /\ Branched) =>
    last.probability =
      _clamp_probability(event_probability(last.event, last.world, global_cfg,
                                           args.user_cfg, Some(layer_idx)))

\* The world objects that hold a reference to the cell at `cell`.
HoldersOf(cell) ==
  { at \in 1..Len(returned) :
      /\ returned[at].kind = "world"
      /\ cell \in {returned[at].fields.trajectory_events, returned[at].fields.metadata} }

GivenWorlds == InitialWorlds(args.seed, GlobalConfigOf(args.risk_factor))[1]

\* C31 (seeding from an existing population): in a simulate_layers call that was
\* given its initial worlds, with or without allocators of the caller, the id
\* counter is above the id of every initial world and not below the counter the
\* caller's id allocator had, and every world a fork adds has an id and a name
\* that no initial world carries.
C31_SeededIdentities ==
  (args.fn = "simulate_layers" /\ args.seed # "none" /\ Running) =>
    /\ \A i \in 1..Len(GivenWorlds) : id_counter >= GivenWorlds[i].id + 1
    /\ Allocators(args.seed)[2] # None => id_counter >= Allocators(args.seed)[2][1]
    /\ Branched =>
         \A k \in 2..Len(last.out.results) :
           \A i \in 1..Len(GivenWorlds) :
             /\ last.out.results[k].id # GivenWorlds[i].id
             /\ last.out.results[k].name # GivenWorlds[i].name

\* The shapes of a trajectory token: the canonical name of a registry event, alone
\* or followed by one of three suffixes.
TagShapes ==
  { name \o suffix : name \in RegistryNames,
                     suffix \in {"", "_not_chosen", "_skipped", "_no_change"} }

\* C32 (trajectory tag shapes): every token a branching step of a run appends to
\* a trajectory is the canonical name of a registry event, or that name followed
\* by _not_chosen, _skipped or _no_change.
C32_TagShapes ==
  (Branched /\ pc # "error") =>
    \A i \in 1..Len(last.out.results) :
      LET events == last.out.results[i].trajectory_events
      IN /\ Len(events) = Len(last.world.trajectory_events) + 1
         /\ events[Len(events)] \in TagShapes

\* The ids of the active worlds are 0 .. n-1 for the n active worlds, and n is the
\* counter of the id allocator.
DenseIds ==
  /\ { active_worlds[i].id : i \in 1..Len(active_worlds) } = 0..(Len(active_worlds) - 1)
  /\ id_counter = Len(active_worlds)

\* C33 (no gaps in issued ids): a simulate_layers call without initial worlds and
\* with allocators of its own runs its layers, and at every layer boundary the
\* ids of its active worlds are exactly 0 .. n-1, n the number of active worlds
\* and the counter of the id allocator.
C33_NoGaps ==
  (args.fn = "simulate_layers" /\ args.seed = "none" /\ pc # "idle") =>
    /\ Running
    /\ pc \in {"layer", "done"} => DenseIds

\* The positions of the active worlds that carry the id and the name of `world`.
SuccessorsOf(world) ==
  { i \in 1..Len(active_worlds) :
      active_worlds[i].id = world.id /\ active_worlds[i].name = world.name }

\* A layer has just ended: active_worlds is its result, prev_worlds what it began with.
LayerEnded == pc = "layer" /\ last.op = "end_layer"

\* C34 (stable identities over time): when a layer ends, each world that was
\* active before it has exactly one world with its id and its name among the
\* worlds active after it; the number of active worlds has not decreased and is
\* at most twice what it was.
C34_StableIdentities ==
  LayerEnded =>
    /\ \A j \in 1..Len(prev_worlds) : Cardinality(SuccessorsOf(prev_worlds[j])) = 1
    /\ Len(prev_worlds) <= Len(active_worlds)
    /\ Len(active_worlds) <= 2 * Len(prev_worlds)

\* A second layer of a run with two worlds or more ends with more worlds than it
\* began with.
C34_Witness ==
  /\ LayerEnded
  /\ layer_idx = 2
  /\ Len(prev_worlds) >= 2
  /\ Len(active_worlds) > Len(prev_worlds)

\* The tokens with which a handler records that it was applied to a world on
\* which its event is not feasible.
NoOpTokens ==
  { "marry_no_change", "divorce_no_change", "have_first_child_skipped",
    "have_second_child_skipped", "have_third_child_skipped", "get_loan_skipped_has_property",
    "stock_market_increase_no_position", "stock_market_crash_no_position" }

LastToken(world) == world.trajectory_events[Len(world.trajectory_events)]

\* `after` has the family_status of `before`, or marry has taken it from a
\* status other than married to married, or divorce from married to divorced.
FamilyStep(before, after, name) ==
  \/ after.family_status = before.family_status
  \/ /\ name = "marry" /\ LastToken(after) = "marry"
     /\ before.family_status # "married" /\ after.family_status = "married"
  \/ /\ name = "divorce" /\ LastToken(after) = "divorce"
     /\ before.family_status = "married" /\ after.family_status = "divorced"

\* C35 (handler results are kept for feasible events only): in a run of the layer
\* driver no world's trajectory holds a token with which a handler records a
\* feasibility no-op; a branching step changes family_status only by marry, from
\* a status other than married to married, and by divorce, from married to
\* divorced; the economic step and the highlight toggle leave it as it is.
C35_FeasibleOnly ==
  /\ Running =>
       \A i \in 1..Len(Population) :
         \A k \in 1..Len(Population[i].trajectory_events) :
           Population[i].trajectory_events[k] \notin NoOpTokens
  /\ (Branched /\ pc # "error") =>
       \A i \in 1..Len(last.out.results) :
         /\ LastToken(last.out.results[i]) \notin NoOpTokens
         /\ FamilyStep(last.world, last.out.results[i], last.event)
  /\ EveryStep(LAMBDA w, v : Branched \/ v.family_status = w.family_status)

\* A branching step was given marry and a married world, and has returned the
\* world with marry_not_chosen.
C35_Witness ==
  /\ Branched /\ pc # "error"
  /\ last.event = "marry"
  /\ last.world.family_status = "married"
  /\ Len(last.out.results) = 1
  /\ LastToken(last.out.results[1]) = "marry_not_chosen"
  /\ last.out.results[1].family_status = "married"

\* The number of 'get_loan' tokens in the world's trajectory.
Mortgages(world) ==
  Cardinality({ k \in 1..Len(world.trajectory_events) : world.trajectory_events[k] = "get_loan" })

\* C36 (at most one mortgage per lineage): in a run of the layer driver no
\* trajectory holds 'get_loan' more than once; a branching step appends
\* 'get_loan' only to a world whose property_price is not above 0, and the result
\* has property_price above 0; no step of the driver takes property_price from
\* above 0 to 0 or below, nor adds a 'get_loan' to a world with property_price
\* above 0.
C36_OneMortgage ==
  /\ Running => \A i \in 1..Len(Population) : Mortgages(Population[i]) <= 1
  /\ (Branched /\ pc # "error") =>
       \A i \in 1..Len(last.out.results) :
         LastToken(last.out.results[i]) = "get_loan" =>
           /\ last.world.property_price <= 0
           /\ last.out.results[i].property_price > 0
  /\ EveryStep(LAMBDA w, v :
       w.property_price > 0 => (v.property_price > 0 /\ Mortgages(v) = Mortgages(w)))

\* A world that took get_loan in the first layer was given get_loan again in the
\* second, and the step returned it with 'get_loan_skipped'.
C36_Witness ==
  /\ Branched /\ pc # "error"
  /\ last.event = "get_loan"
  /\ Mortgages(last.world) = 1
  /\ last.world.property_price > 0
  /\ Len(last.out.results) = 1
  /\ LastToken(last.out.results[1]) = "get_loan_skipped"
  /\ Mortgages(last.out.results[1]) = 1

\* C37 (extra payments are paid for): make_extra_payment never reduces
\* current_loan by more than the amount by which it reduces cash, whatever cash
\* the world has.
C37_PaidFor ==
  (last.op = "handler" /\ last.event = "make_extra_payment" /\ ~ IsError(last.after)) =>
    last.before.current_loan - last.after.current_loan <= last.before.cash - last.after.cash

\* The branches renamed so far, as <<caller, position>>.
Renamed == { c \in Callers \X (1..MaxRenames) : c[2] <= Len(returned[c[1]]) }

\* Two different branches were given the same id, or the same name.
DuplicateIssued ==
  \E a \in Renamed, b \in Renamed :
    /\ a # b
    /\ \/ returned[a[1]][a[2]].id = returned[b[1]][b[2]].id
       \/ returned[a[1]][a[2]].name = returned[b[1]][b[2]].name

\* C38 (allocator access must be serialized): when the calls of next_name and
\* next_id are made one after the other, as by the single-threaded driver, no two
\* branches get the same id or the same name, no call raises, each call returns
\* what next_name and next_id give for the counters it found, and the counters
\* have advanced by the number of calls made. (That unserialized callers can get
\* the same id and name is the reachability of C38_Witness.)
C38_SerializedAllocation ==
  args.serialized =>
    /\ ~ DuplicateIssued
    /\ \A t \in Callers : pc[t] # "error"
    /\ \A c \in Renamed :
         LET given == returned[c[1]][c[2]]
         IN /\ given.id = next_id(given.ids_at).value
            /\ given.name = next_name(DEFAULT_WORLD_NAMES, given.names_at)
    /\ (\A t \in Callers : pc[t] = "idle") =>
         \E c \in SharedCounters :
           /\ name_counter = c[1] + Cardinality(Renamed)
           /\ id_counter = c[2] + Cardinality(Renamed)

\* Two callers that were not serialized have each renamed a branch, and both
\* branches got the same id and the same name.
C38_Witness ==
  /\ ~ args.serialized
  /\ Len(returned[1]) >= 1 /\ Len(returned[2]) >= 1
  /\ returned[1][1].id = returned[2][1].id
  /\ returned[1][1].name = returned[2][1].name

\* C39 (world creation): the WorldState class declares the fields id and
\* highlight, and create_initial_world, for the configurations of the call and
\* any name, world_id and highlight flag, returns a world with that id, that
\* name and that flag, no loan, not bankrupt and an empty trajectory.
C39_WorldCreation ==
  /\ {"id", "highlight"} \subseteq WorldStateFields
  /\ \A name \in {"Alice", "Bob"}, world_id \in 0..2, flag \in BOOLEAN :
       LET world == create_initial_world(global_cfg, args.user_cfg, name, world_id,
                                         Some(flag), FALSE)
       IN /\ ~ IsError(world)
          /\ world.id = world_id
          /\ world.name = name
          /\ world.highlight = flag
          /\ world.current_loan = 0
          /\ world.bankrupt = FALSE
          /\ world.trajectory_events = <<>>
====
